---- MODULE Spec2Model ----
(***************************************************************************)
(* Model of the absence-record server (Express handlers over the          *)
(* "registros" table): POST /api/registros, GET /api/registros,           *)
(* GET /api/registros/por-dependencia and DELETE /api/registros/:id,      *)
(* with POST /api/login and GET /api/registros/pdf: the column widths,    *)
(* the pages, the watermark, the table header and the QR block.           *)
(* Strings are sequences of one-character strings, so that trim() and     *)
(* toUpperCase() are real conversions.  A handler is cut into steps at    *)
(* its awaits: the synchronous prefix of a handler is one step (the       *)
(* runtime is single-threaded), each database statement is one step.      *)
(***************************************************************************)
EXTENDS Integers, Sequences, FiniteSets, TLC

\* ------------------------------------------------------------------ bounds
NumProcs == 2      \* requests handled concurrently
MaxBatch == 2      \* longest registros array of a submitted body
MaxPayload == 3    \* longest registros array given to the intra-batch scan
MaxId == 3         \* values the serial id column can hand out
MaxClock == 1      \* latest value of the clock read by new Date()
MaxColumns == 3    \* longest list of column definitions given to the allocation
MaxBodyWidth == 4  \* widest body given to the allocation, in steps of WidthStep
MaxRows == 2       \* most records of one user in a table given to the PDF handler
MaxTableRows == 3  \* most rows of the list of EditableTable
MaxFetches == 2    \* most personal-data requests sent by EditableTable

Procs == 1..NumProcs

\* ----------------------------------------------------------------- strings
\* The JavaScript value undefined (a missing JSON field or query parameter).
Undefined == <<"undefined">>

IsString(v) == v # Undefined

\* String.prototype.trim: strips leading and trailing white space.
RECURSIVE TrimStart(_)
TrimStart(s) ==
    IF s = <<>> THEN <<>>
    ELSE IF Head(s) = " " THEN TrimStart(Tail(s))
    ELSE s

RECURSIVE TrimEnd(_)
TrimEnd(s) ==
    IF s = <<>> THEN <<>>
    ELSE IF s[Len(s)] = " " THEN TrimEnd(SubSeq(s, 1, Len(s) - 1))
    ELSE s

Trim(s) == TrimEnd(TrimStart(s))

\* String.prototype.toUpperCase on the characters the model uses.
UpperChar(c) ==
    CASE c = "a" -> "A"
      [] c = "b" -> "B"
      [] c = "u" -> "U"
      [] c = "v" -> "V"
      [] c = "g" -> "G"
      [] c = "n" -> "N"
      [] c = "m" -> "M"
      [] c = "c" -> "C"
      [] c = "d" -> "D"
      [] c = "o" -> "O"
      [] c = "p" -> "P"
      [] OTHER -> c

ToUpperCase(s) == [i \in 1..Len(s) |-> UpperChar(s[i])]

\* Code points, for the ORDER BY on the text column dependencia.
CharCode(c) ==
    CASE c = " " -> 32
      [] c = "A" -> 65
      [] c = "B" -> 66
      [] c = "X" -> 88
      [] c = "Y" -> 89
      [] c = "Z" -> 90
      [] c = "a" -> 97
      [] c = "b" -> 98
      [] OTHER -> 120

RECURSIVE StrLess(_, _)
StrLess(s, t) ==
    IF t = <<>> THEN FALSE
    ELSE IF s = <<>> THEN TRUE
    ELSE IF CharCode(Head(s)) < CharCode(Head(t)) THEN TRUE
    ELSE IF CharCode(Head(s)) > CharCode(Head(t)) THEN FALSE
    ELSE StrLess(Tail(s), Tail(t))

\* ------------------------------------------------------------------ schema
\* The schema without its minimum length: any string passes.
StringAny(v) == IsString(v)

\* z.string().min(1)
StringMin1(v) == IsString(v) /\ Len(v) >= 1

\* z.string().optional().default("")
OptionalString(v) == TRUE

registroSchema(r) ==
    /\ StringMin1(r.dependencia)
    /\ StringMin1(r.identificacion)
    /\ StringMin1(r.grado)
    /\ StringMin1(r.nombresCompletos)
    /\ StringMin1(r.motivo)
    /\ OptionalString(r.detalle)

registrosSchema(body) ==
    /\ StringMin1(body.usuario)
    /\ Len(body.registros) >= 1
    /\ \A i \in 1..Len(body.registros) : registroSchema(body.registros[i])

\* ------------------------------------------------------------------ inputs
Entrada(dep, ident, grado) ==
    [dependencia |-> dep, identificacion |-> ident, grado |-> grado,
     nombresCompletos |-> <<"n">>, motivo |-> <<"m">>, detalle |-> Undefined]

UsuarioInputs == { <<"u">>, <<" ", "v">> }

\* Rows that pass the schema: two identifications that differ in letter
\* case and surrounding white space only, and a third that differs.
ValidEntradas ==
    { Entrada(<<"X">>, <<"a">>, <<"g">>),
      Entrada(<<"Y", " ">>, <<" ", "A">>, <<"g">>),
      Entrada(<<"X">>, <<"b">>, <<"g">>) }

\* A record lacking a required field, and one whose identification is empty.
InvalidEntradas ==
    { Entrada(<<"X">>, <<"a">>, Undefined), Entrada(<<"X">>, <<>>, <<"g">>) }

SeqsUpTo(S, n) == UNION { [1..k -> S] : k \in 0..n }

ValidBodies ==
    { [usuario |-> u, registros |-> rs] :
        u \in UsuarioInputs, rs \in SeqsUpTo(ValidEntradas, MaxBatch) \ { <<>> } }

\* Bodies the schema rejects, and a usuario that is blank once trimmed.
InvalidBodies ==
    { [usuario |-> Undefined, registros |-> << Entrada(<<"X">>, <<"a">>, <<"g">>) >>],
      [usuario |-> <<"u">>, registros |-> <<>>],
      [usuario |-> <<" ">>, registros |-> << Entrada(<<"X">>, <<"a">>, <<"g">>) >>] }
    \cup { [usuario |-> <<"u">>, registros |-> << e >>] : e \in InvalidEntradas }

Bodies == ValidBodies \cup InvalidBodies

\* Longer batches for the intra-batch scan, over more identifications.
PayloadEntradas ==
    ValidEntradas \cup
        { Entrada(<<"Y", " ">>, <<" ", "a">>, <<"g">>),
          Entrada(<<"Z">>, <<"B">>, <<"g">>),
          Entrada(<<"Z">>, <<"c">>, <<"g">>) }

PayloadBodies ==
    { [usuario |-> <<"u">>, registros |-> rs] :
        rs \in SeqsUpTo(PayloadEntradas, MaxPayload) \ { <<>> } }

QueryUsuarioInputs == { Undefined, <<"u">>, <<" ", "v">> }

\* req.params.id after Number.parseInt; NaN stands for a non-numeric segment.
NaN == -1
IdParamInputs == { NaN } \cup (1..MaxId)

\* ------------------------------------------------------------------- state
VARIABLES
    registros,   \* the rows of table "registros"
    nextId,      \* next value of the serial column id
    now,         \* the clock read by new Date()
    pc,          \* per request slot: "idle", "select", "insert", "pdfSelect",
                 \* "pdfRead", "pdfFlush" or "done"
    req,         \* per request slot: the request being handled
    valores,     \* per request slot: the rows POST /api/registros built
    resp,        \* per request slot: the response sent
    users,       \* the rows of table "users"
    cachedWatermarkBuffer,  \* the module-level cache of the logo file
    cachedHeaderBuffer,     \* the module-level cache of the header image file
    doc,         \* per request slot: the PDFDocument and the handler's locals
    stream,      \* per request slot: the HTTP response being streamed
    layout,      \* the column-width allocation: its inputs and its result
    table,       \* the EditableTable component: its state, its requests
    summary      \* the DependencySummary component: the response, its items

vars ==
    << registros, nextId, now, pc, req, valores, resp, users,
       cachedWatermarkBuffer, cachedHeaderBuffer, doc, stream, layout,
       table, summary >>

\* What the handlers of the records leave alone.
outside ==
    << users, cachedWatermarkBuffer, cachedHeaderBuffer, doc, stream, layout,
       table, summary >>

NoReq == [op |-> "none"]
NoResp == [status |-> 0]
Null == [isNull |-> TRUE]

Response(status, body) == [status |-> status, body |-> body]

\* No buffer: the value null of the two caches and of a failed load.
NoBuffer == 0
NoDoc ==
    [rows |-> <<>>, pending |-> {}, watermarkBuffer |-> NoBuffer,
     headerBuffer |-> NoBuffer, qrBuffer |-> NoBuffer, lines |-> <<>>,
     page |-> 0, y |-> 0, drawn |-> <<>>, ended |-> FALSE, thrown |-> "none"]
NoStream == [headersSent |-> FALSE, ended |-> FALSE]
NoLayout == [bodyWidth |-> 0, definitions |-> <<>>, columns |-> <<>>]

\* new Map(): no key.
EmptyMap == [k \in {} |-> 0]

\* Map.prototype.set: the value of an existing key is replaced.
MapSet(map, key, value) ==
    [k \in DOMAIN map \cup { key } |-> IF k = key THEN value ELSE map[k]]

\* The components before they are mounted.
NoTable ==
    [rows |-> <<>>, personalCache |-> EmptyMap, personalCacheRef |-> EmptyMap,
     fetches |-> <<>>, sent |-> <<>>, mounted |-> FALSE]
NoSummary == [rawItems |-> <<>>, items |-> <<>>, loaded |-> FALSE, error |-> FALSE]

\* bcrypt.hash, as far as bcrypt.compare tells: a hash matches its password.
Hash(password) == << "$2a$10$" >> \o password

\* The users table after the seed script.
SeedUsers ==
    { [id |-> 1,
       email |-> << "a", "@", "x", ".", "c" >>,
       passwordHash |-> Hash(<< "c", "h", "a", "n", "g", "e", "m", "e" >>),
       name |-> "Administrador"] }

\* The process has started, nothing is cached, no request is in flight.
Idle ==
    /\ nextId = 1
    /\ now = 0
    /\ pc = [p \in Procs |-> "idle"]
    /\ req = [p \in Procs |-> NoReq]
    /\ valores = [p \in Procs |-> <<>>]
    /\ resp = [p \in Procs |-> NoResp]
    /\ users = SeedUsers
    /\ cachedWatermarkBuffer = NoBuffer
    /\ cachedHeaderBuffer = NoBuffer
    /\ doc = [p \in Procs |-> NoDoc]
    /\ stream = [p \in Procs |-> NoStream]
    /\ table = NoTable
    /\ summary = NoSummary

Init ==
    /\ registros = {}
    /\ layout = NoLayout
    /\ Idle

\* ---------------------------------------------------- POST /api/registros
\* registrosEntrada.map(...): every text field trimmed, owner and time added.
BuildValores(registrosEntrada, normalizedUsuario, t) ==
    [i \in 1..Len(registrosEntrada) |->
        LET registro == registrosEntrada[i] IN
        [dependencia |-> Trim(registro.dependencia),
         identificacion |-> Trim(registro.identificacion),
         grado |-> Trim(registro.grado),
         nombresCompletos |-> Trim(registro.nombresCompletos),
         motivo |-> Trim(registro.motivo),
         detalle |-> IF IsString(registro.detalle) THEN Trim(registro.detalle) ELSE <<>>,
         usuario |-> normalizedUsuario,
         creadoEn |-> t]]

\* The map key without toUpperCase().
NormalizedExact(identificacion) == Trim(identificacion)

\* The key of the seenIdentificaciones map.
Normalized(identificacion) == ToUpperCase(Trim(identificacion))

\* The for loop over valores with the seenIdentificaciones map: the result
\* is payloadConflict, Null when the loop ends without a repeat.
RECURSIVE ScanPayload(_, _, _)
ScanPayload(vals, i, seenIdentificaciones) ==
    IF i > Len(vals) THEN Null
    ELSE LET registro == vals[i]
             normalized == Normalized(registro.identificacion)
         IN IF \E e \in seenIdentificaciones : e.key = normalized
            THEN LET first == CHOOSE e \in seenIdentificaciones : e.key = normalized
                 IN [identificacion |-> registro.identificacion,
                     dependencia |-> first.dependencia]
            ELSE ScanPayload(vals, i + 1,
                     seenIdentificaciones \cup
                         { [key |-> normalized,
                            identificacion |-> registro.identificacion,
                            dependencia |-> registro.dependencia] })

\* The handler without its intra-batch scan.
PayloadConflictSkipped(vals) == Null

PayloadConflict(vals) == ScanPayload(vals, 1, {})

\* The list given to inArray built from the upper-cased map keys.
UniqueIdentificacionesUpper(vals) ==
    { ToUpperCase(vals[i].identificacion) : i \in 1..Len(vals) }

\* Array.from(new Set(valores.map(r => r.identificacion)))
UniqueIdentificaciones(vals) == { vals[i].identificacion : i \in 1..Len(vals) }

\* The storage check with eq(identificacion, uniqueIdentificaciones[0]) in
\* place of inArray.
ExistingConflictsFirst(rows, uniqueIdentificaciones) ==
    { r \in rows : r.identificacion = CHOOSE x \in uniqueIdentificaciones : TRUE }

\* WHERE identificacion IN (...): the text comparison of the database.
ExistingConflicts(rows, uniqueIdentificaciones) ==
    { r \in rows : r.identificacion \in uniqueIdentificaciones }

\* The insert given valores[0] in place of valores.
InsertedRowsFirst(vals, firstId) ==
    { [id |-> firstId,
       dependencia |-> vals[1].dependencia,
       identificacion |-> vals[1].identificacion,
       grado |-> vals[1].grado,
       nombresCompletos |-> vals[1].nombresCompletos,
       motivo |-> vals[1].motivo,
       detalle |-> vals[1].detalle,
       usuario |-> vals[1].usuario,
       creadoEn |-> vals[1].creadoEn] }

\* INSERT ... VALUES (...), (...) RETURNING id: one statement, ids from the
\* serial column in the order of the values.
InsertedRows(vals, firstId) ==
    { [id |-> firstId + i - 1,
       dependencia |-> vals[i].dependencia,
       identificacion |-> vals[i].identificacion,
       grado |-> vals[i].grado,
       nombresCompletos |-> vals[i].nombresCompletos,
       motivo |-> vals[i].motivo,
       detalle |-> vals[i].detalle,
       usuario |-> vals[i].usuario,
       creadoEn |-> vals[i].creadoEn] : i \in 1..Len(vals) }

Done(p, response) ==
    /\ pc' = [pc EXCEPT ![p] = "done"]
    /\ resp' = [resp EXCEPT ![p] = response]
    /\ valores' = [valores EXCEPT ![p] = <<>>]

\* Lines 155-233: validation, the rows, the intra-batch scan; ends by
\* answering 400 or 409, or by issuing the SELECT of the storage check.
PostRegistros(p, bodies) ==
    /\ pc[p] = "idle"
    /\ \E body \in bodies, t \in { now, IF now < MaxClock THEN now + 1 ELSE now } :
        /\ req' = [req EXCEPT ![p] = [op |-> "post", body |-> body]]
        /\ IF ~registrosSchema(body)
           THEN /\ Done(p, Response(400, [message |-> "invalid"]))
                /\ UNCHANGED now
           ELSE LET normalizedUsuario == Trim(body.usuario) IN
                IF normalizedUsuario = <<>>
                THEN /\ Done(p, Response(400, [message |-> "usuario"]))
                     /\ UNCHANGED now
                ELSE LET vals == BuildValores(body.registros, normalizedUsuario, t)
                         payloadConflict == PayloadConflict(vals)
                     IN /\ now' = t
                        /\ IF payloadConflict # Null
                           THEN Done(p, Response(409,
                                    [identificacion |-> payloadConflict.identificacion,
                                     dependencia |-> payloadConflict.dependencia,
                                     source |-> "payload"]))
                           ELSE /\ pc' = [pc EXCEPT ![p] = "select"]
                                /\ valores' = [valores EXCEPT ![p] = vals]
                                /\ UNCHANGED resp
    /\ UNCHANGED << registros, nextId >>
    /\ UNCHANGED outside

\* Lines 227-246: the database answers the SELECT; existingConflicts[0] is
\* whichever matching row the database returns first.
PostSelect(p) ==
    /\ pc[p] = "select"
    /\ \/ LET existingConflicts ==
                ExistingConflicts(registros, UniqueIdentificaciones(valores[p]))
          IN IF existingConflicts # {}
             THEN \E conflict \in existingConflicts :
                    Done(p, Response(409,
                        [identificacion |-> conflict.identificacion,
                         dependencia |-> conflict.dependencia,
                         source |-> "database"]))
             ELSE /\ pc' = [pc EXCEPT ![p] = "insert"]
                  /\ UNCHANGED << valores, resp >>
       \/ Done(p, Response(500, [message |-> "guardar"]))
    /\ UNCHANGED << registros, nextId, now, req >>
    /\ UNCHANGED outside

\* The insert with ON CONFLICT DO NOTHING over a unique identification.
PostInsertSkipStored(p) ==
    /\ pc[p] = "insert"
    /\ \/ /\ nextId + Len(valores[p]) - 1 <= MaxId
          /\ LET resultado ==
                    { r \in InsertedRows(valores[p], nextId) :
                        \A q \in registros : q.identificacion # r.identificacion }
             IN /\ registros' = registros \cup resultado
                /\ nextId' = nextId + Len(valores[p])
                /\ Done(p, Response(201, [total |-> Cardinality(resultado)]))
       \/ /\ Done(p, Response(500, [message |-> "guardar"]))
          /\ UNCHANGED << registros, nextId >>
    /\ UNCHANGED << now, req >>
    /\ UNCHANGED outside

\* Lines 248-262: the database runs the INSERT; a failed statement leaves
\* no row behind and the catch block answers 500.
PostInsert(p) ==
    /\ pc[p] = "insert"
    /\ \/ /\ nextId + Len(valores[p]) - 1 <= MaxId
          /\ LET resultado == InsertedRows(valores[p], nextId) IN
             /\ registros' = registros \cup resultado
             /\ nextId' = nextId + Len(valores[p])
             /\ Done(p, Response(201, [total |-> Cardinality(resultado)]))
       \/ /\ Done(p, Response(500, [message |-> "guardar"]))
          /\ UNCHANGED << registros, nextId >>
    /\ UNCHANGED << now, req >>
    /\ UNCHANGED outside

\* ----------------------------------------------------- GET /api/registros
\* typeof req.query.usuario === "string" ? req.query.usuario.trim() : ""
RawUsuario(q) == IF IsString(q) THEN Trim(q) ELSE <<>>

\* The orders in which a database may return the rows of S.
Orderings(S) ==
    { s \in [1..Cardinality(S) -> S] :
        \A i, j \in 1..Cardinality(S) : i # j => s[i] # s[j] }

\* The list ordered without desc(): oldest first within a unit.
ListOrderOldestFirst(r1, r2) ==
    \/ StrLess(r1.dependencia, r2.dependencia)
    \/ r1.dependencia = r2.dependencia /\ r1.creadoEn <= r2.creadoEn

\* .orderBy(registros.dependencia, desc(registros.creadoEn))
ListOrder(r1, r2) ==
    \/ StrLess(r1.dependencia, r2.dependencia)
    \/ r1.dependencia = r2.dependencia /\ r1.creadoEn >= r2.creadoEn

\* The result is in the order of the ORDER BY; rows that compare equal come
\* in any order.
ListOrdered(s) == \A i, j \in 1..Len(s) : i < j => ListOrder(s[i], s[j])

\* .where(eq(registros.usuario, rawUsuario))
RegistrosExistentes(rows, rawUsuario) == { r \in rows : r.usuario = rawUsuario }

GetRegistros(p, usuarios) ==
    /\ pc[p] = "idle"
    /\ \E q \in usuarios :
        /\ req' = [req EXCEPT ![p] = [op |-> "list", usuario |-> q]]
        /\ LET rawUsuario == RawUsuario(q) IN
           IF rawUsuario = <<>>
           THEN Done(p, Response(400, [message |-> "usuario"]))
           ELSE \/ \E registrosExistentes \in
                        Orderings(RegistrosExistentes(registros, rawUsuario)) :
                      /\ ListOrdered(registrosExistentes)
                      /\ Done(p, Response(200, [registros |-> registrosExistentes]))
                \/ Done(p, Response(500, [message |-> "obtener"]))
    /\ UNCHANGED << registros, nextId, now >>
    /\ UNCHANGED outside

\* -------------------------------------- GET /api/registros/por-dependencia
\* The aggregation with count(distinct usuario) in place of count(id).
GroupByCountUsuarios(rows) ==
    { [dependencia |-> d,
       total |-> Cardinality({ r.usuario : r \in { x \in rows : x.dependencia = d } })] :
        d \in { r.dependencia : r \in rows } }

\* SELECT dependencia, count(id) ... GROUP BY dependencia
GroupByDependencia(rows) ==
    { [dependencia |-> d,
       total |-> Cardinality({ r \in rows : r.dependencia = d })] :
        d \in { r.dependencia : r \in rows } }

\* The aggregation ordered without desc().
TotalOrderAscending(g1, g2) == g1.total <= g2.total

\* .orderBy(desc(count(id)))
TotalOrder(g1, g2) == g1.total >= g2.total

TotalOrdered(s) == \A i, j \in 1..Len(s) : i < j => TotalOrder(s[i], s[j])

GetPorDependencia(p) ==
    /\ pc[p] = "idle"
    /\ req' = [req EXCEPT ![p] = [op |-> "por-dependencia"]]
    /\ \/ \E resultados \in Orderings(GroupByDependencia(registros)) :
            /\ TotalOrdered(resultados)
            /\ Done(p, Response(200, [dependencias |-> resultados]))
       \/ Done(p, Response(500, [message |-> "agregados"]))
    /\ UNCHANGED << registros, nextId, now >>
    /\ UNCHANGED outside

\* ----------------------------------------------- DELETE /api/registros/:id
\* The delete without its owner condition.
DeletedRowsAnyOwner(rows, id, rawUsuario) == { r \in rows : r.id = id }

\* DELETE ... WHERE id = :id AND usuario = :usuario RETURNING id
DeletedRows(rows, id, rawUsuario) ==
    { r \in rows : r.id = id /\ r.usuario = rawUsuario }

\* The DELETE without its condition on the id: every record of the owner.
DeleteRegistroAllOfOwner(p, ids, usuarios) ==
    /\ pc[p] = "idle"
    /\ \E id \in ids, q \in usuarios :
        /\ req' = [req EXCEPT ![p] = [op |-> "delete", id |-> id, usuario |-> q]]
        /\ LET rawUsuario == RawUsuario(q) IN
           IF id = NaN
           THEN /\ Done(p, Response(400, [message |-> "id"]))
                /\ UNCHANGED registros
           ELSE IF rawUsuario = <<>>
           THEN /\ Done(p, Response(400, [message |-> "usuario"]))
                /\ UNCHANGED registros
           ELSE \/ LET resultado == RegistrosExistentes(registros, rawUsuario) IN
                   /\ registros' = registros \ resultado
                   /\ IF Cardinality(resultado) = 0
                      THEN Done(p, Response(404, [message |-> "no encontrado"]))
                      ELSE Done(p, Response(200, [message |-> "eliminado"]))
                \/ /\ Done(p, Response(500, [message |-> "eliminar"]))
                   /\ UNCHANGED registros
    /\ UNCHANGED << nextId, now >>
    /\ UNCHANGED outside

DeleteRegistro(p, ids, usuarios) ==
    /\ pc[p] = "idle"
    /\ \E id \in ids, q \in usuarios :
        /\ req' = [req EXCEPT ![p] = [op |-> "delete", id |-> id, usuario |-> q]]
        /\ LET rawUsuario == RawUsuario(q) IN
           IF id = NaN
           THEN /\ Done(p, Response(400, [message |-> "id"]))
                /\ UNCHANGED registros
           ELSE IF rawUsuario = <<>>
           THEN /\ Done(p, Response(400, [message |-> "usuario"]))
                /\ UNCHANGED registros
           ELSE \/ LET resultado == DeletedRows(registros, id, rawUsuario) IN
                   /\ registros' = registros \ resultado
                   /\ IF Cardinality(resultado) = 0
                      THEN Done(p, Response(404, [message |-> "no encontrado"]))
                      ELSE Done(p, Response(200, [message |-> "eliminado"]))
                \/ /\ Done(p, Response(500, [message |-> "eliminar"]))
                   /\ UNCHANGED registros
    /\ UNCHANGED << nextId, now >>
    /\ UNCHANGED outside

\* The response has been sent; the slot takes the next request.
Finish(p) ==
    /\ pc[p] = "done"
    /\ pc' = [pc EXCEPT ![p] = "idle"]
    /\ req' = [req EXCEPT ![p] = NoReq]
    /\ resp' = [resp EXCEPT ![p] = NoResp]
    /\ UNCHANGED << registros, nextId, now, valores >>
    /\ UNCHANGED outside

\* --------------------------------------------------------- POST /api/login
\* z.string().email(): one "@", a local part, a domain with an inner dot.
IsEmail(v) ==
    /\ IsString(v)
    /\ \E i \in 2..(Len(v) - 3) :
          /\ v[i] = "@"
          /\ \A j \in 1..Len(v) : v[j] = "@" => j = i
          /\ \E k \in (i + 2)..(Len(v) - 1) : v[k] = "."

\* z.string().min(6)
StringMin6(v) == IsString(v) /\ Len(v) >= 6

loginSchema(body) == IsEmail(body.email) /\ StringMin6(body.password)

KnownEmail == << "a", "@", "x", ".", "c" >>
UnknownEmail == << "b", "@", "x", ".", "c" >>
RightPassword == << "c", "h", "a", "n", "g", "e", "m", "e" >>
WrongPassword == << "c", "h", "a", "n", "g", "e", "m", "E" >>

LoginInputs ==
    { [email |-> e, password |-> w] :
        e \in { KnownEmail, UnknownEmail, << "a", "x", ".", "c" >>, Undefined },
        w \in { RightPassword, WrongPassword, << "c", "h" >> } }

\* randomUUID()
SessionTokens == { "uuid-1", "uuid-2" }

\* db.query.users.findFirst({ where: eq(table.email, email) })
FindFirst(rows, email) == { u \in rows : u.email = email }

\* bcrypt.compare(password, foundUser.passwordHash)
BcryptCompare(password, passwordHash) == Hash(password) = passwordHash

\* The answer to an email without user, telling which field was wrong.
UserNotFoundLeaky == Response(404, [message |-> "Usuario no encontrado"])

\* The answer to an email that has no user.
UserNotFound == Response(401, [message |-> "Credenciales invalidas"])

\* The answer to a password that does not match the user's hash.
PasswordMismatch == Response(401, [message |-> "Credenciales invalidas"])

\* Lines 108-153.  The handler reads table users and writes nothing.
PostLogin(p, logins) ==
    /\ pc[p] = "idle"
    /\ \E body \in logins :
        /\ req' = [req EXCEPT ![p] = [op |-> "login", body |-> body]]
        /\ IF ~loginSchema(body)
           THEN Done(p, Response(400, [message |-> "invalid"]))
           ELSE \/ LET found == FindFirst(users, body.email) IN
                   IF found = {}
                   THEN Done(p, UserNotFound)
                   ELSE \E foundUser \in found :
                          IF ~BcryptCompare(body.password, foundUser.passwordHash)
                          THEN Done(p, PasswordMismatch)
                          ELSE \E sessionToken \in SessionTokens :
                                 Done(p, Response(200,
                                     [message |-> "Inicio de sesion exitoso",
                                      token |-> sessionToken,
                                      user |-> [id |-> foundUser.id,
                                                email |-> foundUser.email,
                                                name |-> foundUser.name]]))
                \/ Done(p, Response(500, [message |-> "login"]))
    /\ UNCHANGED << registros, nextId, now, users >>
    /\ UNCHANGED << cachedWatermarkBuffer, cachedHeaderBuffer, doc, stream, layout, table, summary >>

\* ------------------------------------------- PDF column widths (525-553)
\* Lengths are in hundredths of a PDF point, so that 761.89 is a number of
\* the model; a ratio is a number of hundredths.
Scale == 100

\* Math.floor of a non-negative length.
Floor(x) == (x \div Scale) * Scale

Max(a, b) == IF a >= b THEN a ELSE b

\* PDFDocument({ size: "A4", layout: "landscape", margin: 40 })
PageWidth == 84189
PageHeight == 59528
PageMargin == 4000

\* doc.page.width - doc.page.margins.left - doc.page.margins.right
BodyWidth == PageWidth - PageMargin - PageMargin

Column(header, ratio, minWidth) ==
    [header |-> header, ratio |-> ratio, minWidth |-> minWidth * Scale]

columnDefinitions ==
    << Column("Dependencia", 18, 100),
       Column("Identificacion", 12, 85),
       Column("Grado", 7, 55),
       Column("Nombres completos", 19, 140),
       Column("Motivo", 18, 130),
       Column("Detalle", 16, 120),
       Column("Creado en", 10, 95) >>

\* The width of one column without the cap at remainingWidth.
ColumnWidthUncapped(column, isLast, bodyWidth, remainingWidth) ==
    LET width == IF isLast THEN remainingWidth
                 ELSE Floor((bodyWidth * column.ratio) \div 100)
    IN Max(width, column.minWidth)

\* The body of the forEach callback, lines 531-539.
ColumnWidth(column, isLast, bodyWidth, remainingWidth) ==
    LET width == IF isLast THEN remainingWidth
                 ELSE Floor((bodyWidth * column.ratio) \div 100)
        atLeastMin == Max(width, column.minWidth)
    IN IF atLeastMin > remainingWidth THEN remainingWidth ELSE atLeastMin

\* columnDefinitions.forEach(...) from position index on.
RECURSIVE AllocateFrom(_, _, _, _, _)
AllocateFrom(definitions, index, bodyWidth, remainingWidth, columns) ==
    IF index > Len(definitions)
    THEN [columns |-> columns, remainingWidth |-> remainingWidth]
    ELSE LET column == definitions[index]
             width == ColumnWidth(column, index = Len(definitions),
                                  bodyWidth, remainingWidth)
         IN AllocateFrom(definitions, index + 1, bodyWidth, remainingWidth - width,
                Append(columns, [header |-> column.header, ratio |-> column.ratio,
                                 minWidth |-> column.minWidth, width |-> width]))

\* Lines 525-551: the loop, then what remains is given to the last column.
AllocateColumns(definitions, bodyWidth) ==
    LET loop == AllocateFrom(definitions, 1, bodyWidth, bodyWidth, <<>>)
        n == Len(loop.columns)
    IN IF loop.remainingWidth > 0 /\ n > 0
       THEN [loop.columns EXCEPT ![n].width = @ + loop.remainingWidth]
       ELSE loop.columns

\* columns.reduce((acc, column) => acc + column.width, 0)
RECURSIVE TotalWidth(_)
TotalWidth(columns) ==
    IF columns = <<>> THEN 0 ELSE Head(columns).width + TotalWidth(Tail(columns))

\* Inputs of the allocation: short lists of columns whose ratios may add up
\* to less or more than the whole and whose minimums may exceed the body.
WidthStep == 125
BodyWidthInputs == { k * WidthStep : k \in 0..MaxBodyWidth }

ColumnInputs ==
    { Column("c", ratio, minWidth) : ratio \in { 0, 40, 110 }, minWidth \in { 0, 1, 3 } }

LayoutInputs ==
    { [bodyWidth |-> w, definitions |-> ds, columns |-> <<>>] :
        w \in BodyWidthInputs,
        ds \in SeqsUpTo(ColumnInputs, MaxColumns) \ { <<>> } }
    \cup { [bodyWidth |-> BodyWidth, definitions |-> columnDefinitions, columns |-> <<>>] }

InitColumns ==
    /\ registros = {}
    /\ layout \in LayoutInputs
    /\ Idle

Allocate ==
    /\ layout.columns = <<>>
    /\ layout' = [layout EXCEPT
                     !.columns = AllocateColumns(layout.definitions, layout.bodyWidth)]
    /\ UNCHANGED << registros, nextId, now, pc, req, valores, resp, users,
                    cachedWatermarkBuffer, cachedHeaderBuffer, doc, stream,
                    table, summary >>

NextColumns == Allocate

SpecColumns == InitColumns /\ [][NextColumns]_vars

\* ------------------------------------------------- GET /api/registros/pdf
\* Vertical lengths are in hundredths of a point, as the widths are.
\* doc.page.margins.top
Top == PageMargin

\* doc.page.height - doc.page.margins.bottom
AvailableBottom == PageHeight - PageMargin

\* availableWidth * 0.18, the height of the header image banner.
BannerHeight == (BodyWidth * 18) \div 100

\* The gap below the banner, and the offset of the text without a banner.
BannerGap == 1600
NoBannerGap == 2400

\* What the title, the three lines under it and the moveDown calls of
\* lines 431-455 advance doc.y by.
IntroHeight == 10500

\* const headerHeight = 26, and doc.moveDown(0.1) at font size 10.
TableHeaderHeight == 2600
MoveDownTenth == 116

\* doc.heightOfString of one line at font size 10.
LineHeight == 1156

\* const rowPadding = 8; the 6 added to a row's height; the 2 between rows.
RowPadding == 800
RowExtra == 600
RowGap == 200

\* const qrSize = 120; the 40 asked for under it; the 6 above the code.
QrSize == 12000
QrMargin == 4000
QrCodeGap == 600

\* The buffer a successful readFile or QRCode.toBuffer of request p yields.
Buffer(p) == p

\* The number of lines of the tallest cell of a row: one line, halves of
\* a page in two sizes, nearly a page, a page.
CellLines == { 1, 13, 14, 26, 40 }

\* One drawing operation on the document, where the pen stood.
Draw(pen, what, id, height) ==
    [pen EXCEPT !.drawn = Append(@, [what |-> what, page |-> pen.page,
                                      y |-> pen.y, id |-> id, height |-> height])]

\* Lines 389-408.
drawWatermark(pen, watermarkBuffer) ==
    IF watermarkBuffer = NoBuffer THEN pen ELSE Draw(pen, "watermark", 0, 0)

\* doc.addPage(): the new page, then the pageAdded listener of line 412,
\* which is registered only when there is a watermark buffer.
AddPage(pen, watermarkBuffer) ==
    LET added == [pen EXCEPT !.page = @ + 1, !.y = Top]
    IN IF watermarkBuffer # NoBuffer THEN drawWatermark(added, watermarkBuffer)
       ELSE added

\* Lines 558-582.
drawTableHeader(pen) ==
    [Draw(pen, "tableHeader", 0, TableHeaderHeight) EXCEPT
        !.y = pen.y + TableHeaderHeight + MoveDownTenth]

\* ensureSpaceFor without the table header on the page it adds.
ensureSpaceForNoHeader(pen, height, watermarkBuffer) ==
    IF pen.y + height > AvailableBottom
    THEN LET added == [AddPage(pen, watermarkBuffer) EXCEPT !.y = Top]
         IN IF watermarkBuffer # NoBuffer THEN drawWatermark(added, watermarkBuffer)
            ELSE added
    ELSE pen

\* Lines 584-594.
ensureSpaceFor(pen, height, watermarkBuffer) ==
    IF pen.y + height > AvailableBottom
    THEN LET added == [AddPage(pen, watermarkBuffer) EXCEPT !.y = Top]
             marked == IF watermarkBuffer # NoBuffer
                       THEN drawWatermark(added, watermarkBuffer)
                       ELSE added
         IN drawTableHeader(marked)
    ELSE pen

\* cellHeights: six cells of one line and the tallest cell.
CellHeights(lines) == { LineHeight, lines * LineHeight }

MaxOf(S) == CHOOSE x \in S : \A y \in S : y <= x

\* Math.max(...cellHeights, 0) + rowPadding * 2 + 6
RowHeight(cellHeights) == MaxOf(cellHeights \cup { 0 }) + RowPadding * 2 + RowExtra

\* One record drawn where the pen stands, whatever room is left.
PlaceRowUnchecked(pen, registro, lines, index, watermarkBuffer) ==
    LET rowHeight == RowHeight(CellHeights(lines))
    IN [Draw(pen, "row", registro.id, rowHeight) EXCEPT
           !.y = pen.y + rowHeight + RowGap]

\* The body of registrosExistentes.forEach, lines 598-627.
PlaceRow(pen, registro, lines, index, watermarkBuffer) ==
    LET rowHeight == RowHeight(CellHeights(lines))
        placed == ensureSpaceFor(pen, rowHeight + (IF index = 1 THEN 0 ELSE RowGap),
                                 watermarkBuffer)
    IN [Draw(placed, "row", registro.id, rowHeight) EXCEPT
           !.y = placed.y + rowHeight + RowGap]

\* registrosExistentes.forEach(...) from position index on.
RECURSIVE DrawRows(_, _, _, _, _)
DrawRows(pen, rows, lines, index, watermarkBuffer) ==
    IF index > Len(rows) THEN pen
    ELSE DrawRows(PlaceRow(pen, rows[index], lines[index], index, watermarkBuffer),
                  rows, lines, index + 1, watermarkBuffer)

\* The first page without the watermark.
FirstPageUnmarked(watermarkBuffer, headerBuffer) ==
    LET blank == [page |-> 1, y |-> Top, drawn |-> <<>>]
        bannered == IF headerBuffer # NoBuffer
                    THEN [Draw(blank, "banner", 0, BannerHeight) EXCEPT
                             !.y = Top + BannerHeight + BannerGap]
                    ELSE [blank EXCEPT !.y = Top + NoBannerGap]
    IN [Draw(bannered, "title", 0, IntroHeight) EXCEPT !.y = @ + IntroHeight]

\* Lines 381-455: the document with its first page, the watermark, the
\* header image banner, the title and the lines under it.
FirstPage(watermarkBuffer, headerBuffer) ==
    LET blank == [page |-> 1, y |-> Top, drawn |-> <<>>]
        marked == IF watermarkBuffer # NoBuffer
                  THEN drawWatermark(blank, watermarkBuffer)
                  ELSE blank
        bannered == IF headerBuffer # NoBuffer
                    THEN [Draw(marked, "banner", 0, BannerHeight) EXCEPT
                             !.y = Top + BannerHeight + BannerGap]
                    ELSE [marked EXCEPT !.y = Top + NoBannerGap]
    IN [Draw(bannered, "title", 0, IntroHeight) EXCEPT !.y = @ + IntroHeight]

\* The page of a user without records, with a table header over the message.
NoRecordsWithHeader(pen) == Draw(drawTableHeader(pen), "noRecords", 0, 0)

\* Lines 457-464.
NoRecords(pen) == Draw(pen, "noRecords", 0, 0)

\* The QR block drawn whether or not there is a QR buffer.
QrBlockAlways(pen, qrBuffer, watermarkBuffer) ==
    LET placed == ensureSpaceFor(pen, QrSize + QrMargin, watermarkBuffer)
        image == Draw(placed, "qr", 0, QrSize)
    IN Draw([image EXCEPT !.y = placed.y + QrSize + QrCodeGap], "code", 0, 0)

\* Lines 629-649.
QrBlock(pen, qrBuffer, watermarkBuffer) ==
    IF qrBuffer = NoBuffer THEN pen
    ELSE LET placed == ensureSpaceFor(pen, QrSize + QrMargin, watermarkBuffer)
             image == Draw(placed, "qr", 0, QrSize)
         IN Draw([image EXCEPT !.y = placed.y + QrSize + QrCodeGap], "code", 0, 0)

\* Lines 381-651, up to doc.end().
Render(rows, lines, watermarkBuffer, headerBuffer, qrBuffer) ==
    LET intro == FirstPage(watermarkBuffer, headerBuffer)
    IN IF Len(rows) = 0 THEN NoRecords(intro)
       ELSE QrBlock(DrawRows(drawTableHeader(intro), rows, lines, 1, watermarkBuffer),
                    qrBuffer, watermarkBuffer)

\* Requests handled one after the other: every handler, all inputs.
Next ==
    \/ PostRegistros(1, Bodies)
    \/ PostSelect(1)
    \/ PostInsert(1)
    \/ GetRegistros(1, QueryUsuarioInputs)
    \/ GetPorDependencia(1)
    \/ DeleteRegistro(1, IdParamInputs, QueryUsuarioInputs)
    \/ Finish(1)

Spec == Init /\ [][Next]_vars

\* Submissions and aggregations handled concurrently, their steps
\* interleaved at the awaits: two users submit, one of them a batch of two
\* rows, both the same identification.
RaceBodies ==
    { [usuario |-> <<"u">>,
       registros |-> << Entrada(<<"X">>, <<"a">>, <<"g">>),
                        Entrada(<<"X">>, <<"b">>, <<"g">>) >>],
      [usuario |-> <<" ", "v">>,
       registros |-> << Entrada(<<"Y", " ">>, <<" ", "a">>, <<"g">>) >>] }

NextRace ==
    \E p \in Procs :
        \/ PostRegistros(p, RaceBodies)
        \/ PostSelect(p)
        \/ PostInsert(p)
        \/ GetPorDependencia(p)
        \/ Finish(p)

SpecRace == Init /\ [][NextRace]_vars

\* The synchronous part of a submission, up to the answer of its
\* intra-batch scan or the issue of its SELECT, over the longer batches.
NextPayload ==
    \/ PostRegistros(1, PayloadBodies)
    \/ Finish(1)

SpecPayload == Init /\ [][NextPayload]_vars

\* Logins handled concurrently while records are submitted.
NextLogin ==
    \/ \E p \in Procs :
        \/ PostLogin(p, LoginInputs)
        \/ Finish(p)
    \/ PostRegistros(1, RaceBodies)
    \/ PostSelect(1)
    \/ PostInsert(1)

SpecLogin == Init /\ [][NextLogin]_vars

\* res.status(...).json(...): the answer is sent whole and the response ends.
Json(p, response) ==
    /\ Done(p, response)
    /\ stream' = [stream EXCEPT ![p] = [headersSent |-> TRUE, ended |-> TRUE]]

\* The catch block answering 500 whatever has been sent.
CatchAlwaysJson(p, headersSent) ==
    Json(p, Response(500, [message |-> "Error interno al generar el PDF."]))

\* Lines 652-660, headersSent being res.headersSent when the failure is caught.
Catch(p, headersSent) ==
    IF ~headersSent
    THEN Json(p, Response(500, [message |-> "Error interno al generar el PDF."]))
    ELSE /\ Done(p, Response(200, [contentType |-> "application/pdf",
                                   complete |-> FALSE]))
         /\ stream' = [stream EXCEPT ![p] = [headersSent |-> TRUE, ended |-> TRUE]]

\* Lines 321-331: the usuario parameter; 400 or the SELECT is issued.
PdfStart(p, usuarios) ==
    /\ pc[p] = "idle"
    /\ \E q \in usuarios :
        /\ req' = [req EXCEPT ![p] = [op |-> "pdf", usuario |-> q]]
        /\ doc' = [doc EXCEPT ![p] = NoDoc]
        /\ IF RawUsuario(q) = <<>>
           THEN Json(p, Response(400, [message |-> "Debe especificar el usuario a consultar."]))
           ELSE /\ pc' = [pc EXCEPT ![p] = "pdfSelect"]
                /\ stream' = [stream EXCEPT ![p] = NoStream]
                /\ UNCHANGED << resp, valores >>
    /\ UNCHANGED << registros, nextId, now, users, layout, table, summary >>
    /\ UNCHANGED << cachedWatermarkBuffer, cachedHeaderBuffer >>

\* Lines 332-351: the SELECT answers; then both caches are looked up and a
\* readFile is started for each image that is not cached.
PdfSelect(p) ==
    /\ pc[p] = "pdfSelect"
    /\ \/ \E registrosExistentes \in
              Orderings(RegistrosExistentes(registros, RawUsuario(req[p].usuario))) :
            /\ ListOrdered(registrosExistentes)
            /\ doc' = [doc EXCEPT ![p] =
                  [@ EXCEPT !.rows = registrosExistentes,
                            !.watermarkBuffer = cachedWatermarkBuffer,
                            !.headerBuffer = cachedHeaderBuffer,
                            !.pending =
                                (IF cachedWatermarkBuffer = NoBuffer
                                 THEN { "watermark" } ELSE {})
                                \cup (IF cachedHeaderBuffer = NoBuffer
                                      THEN { "header" } ELSE {})]]
            /\ pc' = [pc EXCEPT ![p] = "pdfRead"]
            /\ UNCHANGED << resp, valores, stream >>
       \/ /\ doc' = [doc EXCEPT ![p].thrown = "beforeHeaders"]
          /\ Catch(p, FALSE)
    /\ UNCHANGED << registros, nextId, now, req, users, layout, table, summary >>
    /\ UNCHANGED << cachedWatermarkBuffer, cachedHeaderBuffer >>

\* Lines 47-53: readFile of the logo answers; a failure is logged.
PdfReadWatermark(p) ==
    /\ pc[p] = "pdfRead"
    /\ "watermark" \in doc[p].pending
    /\ \/ /\ cachedWatermarkBuffer' = Buffer(p)
          /\ doc' = [doc EXCEPT ![p] =
                [@ EXCEPT !.watermarkBuffer = Buffer(p),
                          !.pending = @ \ { "watermark" }]]
       \/ /\ doc' = [doc EXCEPT ![p].pending = @ \ { "watermark" }]
          /\ UNCHANGED cachedWatermarkBuffer
    /\ UNCHANGED << registros, nextId, now, pc, req, valores, resp, users >>
    /\ UNCHANGED << cachedHeaderBuffer, stream, layout, table, summary >>

\* Lines 61-67: readFile of the header image answers; a failure is logged.
PdfReadHeader(p) ==
    /\ pc[p] = "pdfRead"
    /\ "header" \in doc[p].pending
    /\ \/ /\ cachedHeaderBuffer' = Buffer(p)
          /\ doc' = [doc EXCEPT ![p] =
                [@ EXCEPT !.headerBuffer = Buffer(p),
                          !.pending = @ \ { "header" }]]
       \/ /\ doc' = [doc EXCEPT ![p].pending = @ \ { "header" }]
          /\ UNCHANGED cachedHeaderBuffer
    /\ UNCHANGED << registros, nextId, now, pc, req, valores, resp, users >>
    /\ UNCHANGED << cachedWatermarkBuffer, stream, layout, table, summary >>

\* Lines 352-651: QRCode.toBuffer answers with a buffer or fails, which is
\* logged; then the document is drawn and ended in one go.  The heights of
\* the cells are pdfkit's; a failure while drawing goes to the catch block,
\* where res.headersSent depends on what the stream has flushed.
PdfRender(p, cellLines) ==
    /\ pc[p] = "pdfRead"
    /\ doc[p].pending = {}
    /\ \/ \E qrBuffer \in { NoBuffer, Buffer(p) } :
          \E lines \in [1..Len(doc[p].rows) -> cellLines] :
            LET pen == Render(doc[p].rows, lines, doc[p].watermarkBuffer,
                              doc[p].headerBuffer, qrBuffer) IN
            /\ doc' = [doc EXCEPT ![p] =
                  [@ EXCEPT !.qrBuffer = qrBuffer, !.lines = lines,
                            !.page = pen.page, !.y = pen.y,
                            !.drawn = pen.drawn, !.ended = TRUE]]
            /\ pc' = [pc EXCEPT ![p] = "pdfFlush"]
            /\ UNCHANGED << resp, valores, stream >>
       \/ \E headersSent \in BOOLEAN :
            /\ doc' = [doc EXCEPT ![p].thrown =
                  IF headersSent THEN "afterHeaders" ELSE "beforeHeaders"]
            /\ Catch(p, headersSent)
    /\ UNCHANGED << registros, nextId, now, req, users, layout, table, summary >>
    /\ UNCHANGED << cachedWatermarkBuffer, cachedHeaderBuffer >>

\* doc.pipe(res), line 387: the ended document has been written out and
\* the response ends with it.
PdfFlush(p) ==
    /\ pc[p] = "pdfFlush"
    /\ Done(p, Response(200, [contentType |-> "application/pdf", complete |-> TRUE]))
    /\ stream' = [stream EXCEPT ![p] = [headersSent |-> TRUE, ended |-> TRUE]]
    /\ UNCHANGED << registros, nextId, now, req, users, doc, layout, table, summary >>
    /\ UNCHANGED << cachedWatermarkBuffer, cachedHeaderBuffer >>

\* Tables for the PDF handler: user u owns n records in two units, created
\* at alternating times, and user v owns one.
PdfEntrada(i) ==
    Entrada(IF i <= 2 THEN <<"X">> ELSE <<"Y">>, [k \in 1..i |-> "a"], <<"g">>)

RECURSIVE PdfRows(_)
PdfRows(n) ==
    IF n = 0 THEN {}
    ELSE PdfRows(n - 1)
         \cup InsertedRows(BuildValores(<< PdfEntrada(n) >>, <<"u">>, n % 2), n)

PdfTables ==
    { PdfRows(n) \cup InsertedRows(BuildValores(<< PdfEntrada(1) >>, <<"v">>, 0), n + 1) :
        n \in 0..MaxRows }

InitPdf ==
    /\ registros \in PdfTables
    /\ layout = NoLayout
    /\ Idle

NextPdf ==
    \/ PdfStart(1, QueryUsuarioInputs)
    \/ PdfSelect(1)
    \/ PdfReadWatermark(1)
    \/ PdfReadHeader(1)
    \/ PdfRender(1, CellLines)
    \/ PdfFlush(1)
    \/ Finish(1)

SpecPdf == InitPdf /\ [][NextPdf]_vars

\* The same, every step of a request that can be taken being taken in the
\* end: the database, the file system and the streams answer.
SpecPdfFair ==
    /\ SpecPdf
    /\ WF_vars(PdfSelect(1))
    /\ WF_vars(PdfReadWatermark(1))
    /\ WF_vars(PdfReadHeader(1))
    /\ WF_vars(PdfRender(1, CellLines))
    /\ WF_vars(PdfFlush(1))

\* Every handler, one request after the other, on a table that the
\* submissions of RaceBodies fill.
NextAll ==
    \/ PostRegistros(1, RaceBodies)
    \/ PostSelect(1)
    \/ PostInsert(1)
    \/ GetRegistros(1, { <<"u">> })
    \/ GetPorDependencia(1)
    \/ DeleteRegistro(1, IdParamInputs, QueryUsuarioInputs)
    \/ PostLogin(1, LoginInputs)
    \/ PdfStart(1, { <<"u">> })
    \/ PdfSelect(1)
    \/ PdfReadWatermark(1)
    \/ PdfReadHeader(1)
    \/ PdfRender(1, { 1 })
    \/ PdfFlush(1)
    \/ Finish(1)

SpecAll == Init /\ [][NextAll]_vars

\* PDF requests handled concurrently on an empty table, their steps
\* interleaved at the awaits of the SELECT, of the two readFile calls and
\* of the QR generation.
NextPdfRace ==
    \E p \in Procs :
        \/ PdfStart(p, { <<"u">> })
        \/ PdfSelect(p)
        \/ PdfReadWatermark(p)
        \/ PdfReadHeader(p)
        \/ PdfRender(p, { 1 })
        \/ PdfFlush(p)
        \/ Finish(p)

SpecPdfRace == Init /\ [][NextPdfRace]_vars

\* Submissions with fields of white space only, which pass the schema's
\* min(1), next to fields padded with white space.
BlankEntradas ==
    { Entrada(<<"X">>, <<" ">>, <<"g">>),
      Entrada(<<" ", " ">>, <<"a">>, <<"g">>),
      Entrada(<<"X", " ">>, <<" ", "b">>, <<" ">>) }

BlankBodies ==
    { [usuario |-> u, registros |-> rs] :
        u \in UsuarioInputs, rs \in SeqsUpTo(BlankEntradas, MaxBatch) \ { <<>> } }

NextBlank ==
    \/ PostRegistros(1, BlankBodies)
    \/ PostSelect(1)
    \/ PostInsert(1)
    \/ Finish(1)

SpecBlank == Init /\ [][NextBlank]_vars

\* ------------------------------------------------------ DependencySummary
\* ../constants/dependencies: the canonical list of units.
DEPENDENCIA_OPTIONS == << <<"A">>, <<"B">> >>

\* loadData from rawItems to mergedItems: the map totalsByNormalizedName
\* (an item with a blank name sets nothing, a name already set is replaced),
\* canonicalItems, additionalItems, and the stable sort by total descending,
\* then by name.
MergedItems(rawItems) ==
    LET RECURSIVE TotalsByNormalizedName(_)
        \* the map after rawItems.forEach has handled the first i items
        TotalsByNormalizedName(i) ==
            IF i = 0 THEN EmptyMap
            ELSE LET normalized == ToUpperCase(Trim(rawItems[i].dependencia))
                 IN IF normalized = <<>> THEN TotalsByNormalizedName(i - 1)
                    ELSE MapSet(TotalsByNormalizedName(i - 1), normalized,
                                rawItems[i].total)
        totals == TotalsByNormalizedName(Len(rawItems))
        canonicalItems ==
            [i \in 1..Len(DEPENDENCIA_OPTIONS) |->
                LET normalized == ToUpperCase(Trim(DEPENDENCIA_OPTIONS[i])) IN
                [dependencia |-> DEPENDENCIA_OPTIONS[i],
                 total |-> IF normalized \in DOMAIN totals
                           THEN totals[normalized] ELSE 0]]
        knownDependencias ==
            { ToUpperCase(Trim(DEPENDENCIA_OPTIONS[i])) :
                i \in 1..Len(DEPENDENCIA_OPTIONS) }
        RECURSIVE AdditionalItems(_)
        AdditionalItems(items) ==
            IF items = <<>> THEN <<>>
            ELSE LET normalized == ToUpperCase(Trim(Head(items).dependencia))
                 IN (IF Len(normalized) > 0 /\ normalized \notin knownDependencias
                     THEN << [dependencia |-> Head(items).dependencia,
                              total |-> Head(items).total] >>
                     ELSE <<>>)
                    \o AdditionalItems(Tail(items))
        \* a.localeCompare(b, "es") on the names the model uses: letters
        \* first, then lower case before upper case
        LocaleCompare(a, b) ==
            IF a = b THEN 0
            ELSE IF ToUpperCase(a) # ToUpperCase(b)
                 THEN (IF StrLess(ToUpperCase(a), ToUpperCase(b)) THEN -1 ELSE 1)
                 ELSE (IF StrLess(b, a) THEN -1 ELSE 1)
        CompareItems(a, b) ==
            IF b.total - a.total # 0 THEN b.total - a.total
            ELSE LocaleCompare(a.dependencia, b.dependencia)
        RECURSIVE InsertItem(_, _)
        InsertItem(item, sorted) ==
            IF sorted = <<>> THEN << item >>
            ELSE IF CompareItems(Head(sorted), item) <= 0
                 THEN << Head(sorted) >> \o InsertItem(item, Tail(sorted))
                 ELSE << item >> \o sorted
        merged == canonicalItems \o AdditionalItems(rawItems)
        RECURSIVE SortItems(_)
        SortItems(i) ==
            IF i = 0 THEN <<>> ELSE InsertItem(merged[i], SortItems(i - 1))
    IN SortItems(Len(merged))

\* items.reduce((acc, item) => acc + Number(item.total ?? 0), 0)
RECURSIVE totalRegistros(_)
totalRegistros(items) ==
    IF items = <<>> THEN 0 ELSE Head(items).total + totalRegistros(Tail(items))

\* loadData, from the answer of GET /api/registros/por-dependencia on.
loadData(p) ==
    /\ pc[p] = "done"
    /\ req[p].op = "por-dependencia"
    /\ IF resp[p].status = 200
       THEN summary' = [rawItems |-> resp[p].body.dependencias,
                        items |-> MergedItems(resp[p].body.dependencias),
                        loaded |-> TRUE, error |-> FALSE]
       ELSE summary' = [summary EXCEPT !.error = TRUE]
    /\ UNCHANGED << registros, nextId, now, pc, req, valores, resp, users,
                    cachedWatermarkBuffer, cachedHeaderBuffer, doc, stream,
                    layout, table >>

\* The summary of a table filled by submissions of one record each: records
\* of two spellings of a canonical unit, of a unit of white space and of a
\* unit outside the canonical list.
NextSummary ==
    LET SummaryEntradas ==
            { Entrada(<<"A">>, <<"a">>, <<"g">>),
              Entrada(<<"a">>, <<"b">>, <<"g">>),
              Entrada(<<" ">>, <<"c">>, <<"g">>),
              Entrada(<<"Z">>, <<"d">>, <<"g">>) }
        SummaryBodies ==
            { [usuario |-> <<"u">>, registros |-> << e >>] : e \in SummaryEntradas }
    IN \/ PostRegistros(1, SummaryBodies)
       \/ PostSelect(1)
       \/ PostInsert(1)
       \/ GetPorDependencia(1)
       \/ loadData(1)
       \/ Finish(1)

SpecSummary == Init /\ [][NextSummary]_vars

\* ---------------------------------------------------------- EditableTable
\* new Set(GRADE_OPTIONS)
GRADE_SET ==
    { <<"S","B","T","E">>, <<"T","N","T","E">>, <<"C","P","T","N">>,
      <<"M","A","Y","R">>, <<"T","C","N","L">>, <<"C","R","N","L">>,
      <<"G","R","A","D">>, <<"G","R","A","I">>, <<"G","R","A","S">>,
      <<"P","O","L","I">>, <<"C","B","O","S">>, <<"C","B","O","P">>,
      <<"S","G","O","S">>, <<"S","G","O","P">>, <<"S","B","O","S">>,
      <<"S","B","O","P">>, <<"S","B","O","M">> }

\* ../constants/dependencies: new Set(DEPENDENCIA_OPTIONS)
DEPENDENCIA_SET == { DEPENDENCIA_OPTIONS[i] : i \in 1..Len(DEPENDENCIA_OPTIONS) }

\* ../constants/motivos: the reason of MOTIVO_OPTIONS that the value names,
\* Undefined when it names none.
findMotivoOption(value) ==
    LET MOTIVO_OPTIONS == << <<"M">> >>
        matches == { i \in 1..Len(MOTIVO_OPTIONS) :
                        ToUpperCase(Trim(MOTIVO_OPTIONS[i])) = ToUpperCase(Trim(value)) }
    IN IF matches = {} THEN Undefined
       ELSE MOTIVO_OPTIONS[CHOOSE i \in matches : TRUE]

normalizeIdentificacion(value) == ToUpperCase(Trim(value))

REQUIRED_COLUMNS ==
    { "identificacion", "grado", "nombresCompletos", "dependencia", "motivo" }

\* createEmptyRow() given the rows in use: crypto.randomUUID() is an id that
\* none of them holds (0 - k is the k-th UUID; the id of a loaded row is
\* the positive id of its record). persistedId 0 is undefined.
createEmptyRow(tableRows) ==
    LET used == { tableRows[i].id : i \in 1..Len(tableRows) }
        k == CHOOSE n \in 1..(Len(tableRows) + 1) :
                /\ (0 - n) \notin used
                /\ \A j \in 1..(n - 1) : (0 - j) \in used
    IN [id |-> 0 - k, persistedId |-> 0, dependencia |-> <<>>,
        identificacion |-> <<>>, grado |-> <<>>, nombresCompletos |-> <<>>,
        motivo |-> <<>>, detalle |-> <<>>]

\* The table without its duplicate flags.
buildDuplicateMessagesNone(tableRows) == EmptyMap

\* rows.forEach with the keys of persistedById, the map seenUnsaved (to the
\* id of the row) and the messages so far (by row id).
buildDuplicateMessages(tableRows) ==
    LET local(normalizedId) == [source |-> "local", identificacion |-> normalizedId]
        RECURSIVE Scan(_, _, _, _)
        Scan(i, persistedById, seenUnsaved, messages) ==
            IF i > Len(tableRows) THEN messages
            ELSE LET row == tableRows[i]
                     normalizedId == normalizeIdentificacion(row.identificacion)
                 IN IF normalizedId = <<>>
                    THEN Scan(i + 1, persistedById, seenUnsaved, messages)
                    ELSE IF row.persistedId # 0
                    THEN Scan(i + 1, persistedById \cup { normalizedId },
                              seenUnsaved, messages)
                    ELSE IF normalizedId \in persistedById
                    THEN Scan(i + 1, persistedById, seenUnsaved,
                              MapSet(messages, row.id,
                                     [source |-> "persisted",
                                      identificacion |-> normalizedId]))
                    ELSE IF normalizedId \in DOMAIN seenUnsaved
                    THEN LET existingUnsaved == seenUnsaved[normalizedId]
                             flagged == MapSet(messages, row.id, local(normalizedId))
                         IN Scan(i + 1, persistedById, seenUnsaved,
                                 IF existingUnsaved \in DOMAIN flagged THEN flagged
                                 ELSE MapSet(flagged, existingUnsaved,
                                             local(normalizedId)))
                    ELSE Scan(i + 1, persistedById,
                              MapSet(seenUnsaved, normalizedId, row.id), messages)
    IN Scan(1, {}, EmptyMap, EmptyMap)

\* The unsaved rows trimmed and normalised; a row with no field filled is
\* left out.
sanitizedRows(tableRows) ==
    LET editable == SelectSeq(tableRows, LAMBDA row : row.persistedId = 0)
        Cleaned(row) ==
            LET dependencia == ToUpperCase(Trim(row.dependencia))
                grado == ToUpperCase(Trim(row.grado))
                motivo == findMotivoOption(row.motivo)
            IN [dependencia |-> IF dependencia \in DEPENDENCIA_SET
                                THEN dependencia ELSE <<>>,
                identificacion |-> Trim(row.identificacion),
                grado |-> IF grado \in GRADE_SET THEN grado ELSE <<>>,
                nombresCompletos |-> Trim(row.nombresCompletos),
                motivo |-> IF motivo = Undefined THEN <<>> ELSE Trim(motivo),
                detalle |-> Trim(row.detalle)]
        cleaned == [i \in 1..Len(editable) |-> Cleaned(editable[i])]
    IN SelectSeq(cleaned,
                 LAMBDA row : \/ \E key \in REQUIRED_COLUMNS : Len(row[key]) > 0
                              \/ Len(row.detalle) > 0)

\* requestPersonalData up to its await, on the state next that the effect is
\* building: the entry is read through the ref, the cache takes a "pending"
\* entry at the next render, the request is sent.
requestPersonalData(next, normalizedIdentificacion, forceLookup) ==
    IF normalizedIdentificacion \in DOMAIN next.personalCacheRef /\ ~forceLookup
    THEN next
    ELSE [next EXCEPT
            !.personalCache = MapSet(@, normalizedIdentificacion,
                                     [status |-> "pending"]),
            !.fetches = Append(@, [key |-> normalizedIdentificacion,
                                   state |-> "sent"])]

\* One render of the state t and its effects: the ref takes the cache of
\* the render (344-346); the lookup effect (478-575) sends a request for
\* every unsaved row whose identification has MIN_LOOKUP_LENGTH = 9
\* characters or more and no entry in the cache of the render, and fills in
\* grado and nombresCompletos of the rows whose entry is "found"; the state
\* it sets is rendered in turn.
RECURSIVE Commit(_)
Commit(t) ==
    LET LookupKeyOf(row) ==
            LET normalizedIdentificacion == normalizeIdentificacion(row.identificacion)
            IN IF \/ row.persistedId # 0
                  \/ normalizedIdentificacion = <<>>
                  \/ Len(normalizedIdentificacion) < 9
               THEN Undefined
               ELSE normalizedIdentificacion
        RECURSIVE RequestMissing(_, _)
        RequestMissing(i, next) ==
            IF i > Len(t.rows) THEN next
            ELSE LET key == LookupKeyOf(t.rows[i])
                 IN RequestMissing(i + 1,
                        IF key # Undefined /\ key \notin DOMAIN t.personalCache
                        THEN requestPersonalData(next, key, FALSE)
                        ELSE next)
        NoLookupData == [documento |-> Undefined]
        \* rowsToUpdate[row.id]
        RowToUpdate(row) ==
            LET key == LookupKeyOf(row)
            IN IF key = Undefined \/ key \notin DOMAIN t.personalCache
               THEN NoLookupData
               ELSE LET cacheEntry == t.personalCache[key]
                    IN IF cacheEntry.status = "not-found"
                       THEN (IF \/ Len(Trim(row.grado)) > 0
                                \/ Len(Trim(row.nombresCompletos)) > 0
                             THEN [documento |-> key, grado |-> <<>>,
                                   nombresCompletos |-> <<>>]
                             ELSE NoLookupData)
                       ELSE IF cacheEntry.status = "found"
                       THEN (IF \/ /\ Len(Trim(row.grado)) = 0
                                   /\ cacheEntry.data.grado \in GRADE_SET
                                \/ /\ Len(Trim(row.nombresCompletos)) = 0
                                   /\ Len(cacheEntry.data.nombresCompletos) > 0
                             THEN cacheEntry.data
                             ELSE NoLookupData)
                       ELSE NoLookupData
        \* the callback of currentRows.map in setRows
        UpdatedRow(row, lookupData) ==
            IF row.persistedId # 0 \/ lookupData = NoLookupData THEN row
            ELSE LET normalizedIdentificacion ==
                         normalizeIdentificacion(row.identificacion)
                     shouldUpdateGrado ==
                         Len(Trim(row.grado)) = 0 /\ lookupData.grado \in GRADE_SET
                     shouldUpdateNombre ==
                         /\ Len(Trim(row.nombresCompletos)) = 0
                         /\ Len(lookupData.nombresCompletos) > 0
                 IN IF \/ normalizedIdentificacion = <<>>
                       \/ normalizedIdentificacion # lookupData.documento
                    THEN row
                    ELSE [row EXCEPT
                            !.grado = IF shouldUpdateGrado
                                      THEN lookupData.grado ELSE @,
                            !.nombresCompletos =
                                IF shouldUpdateNombre
                                THEN lookupData.nombresCompletos ELSE @]
        synced == [t EXCEPT !.personalCacheRef = t.personalCache]
        next == [RequestMissing(1, synced) EXCEPT
                    !.rows = [i \in 1..Len(t.rows) |->
                                UpdatedRow(t.rows[i], RowToUpdate(t.rows[i]))]]
    IN IF next.rows = t.rows /\ next.personalCache = t.personalCache
       THEN next
       ELSE Commit(next)

\* The component takes the state next; nothing else changes. The field
\* sent holds the request that the step handed to fetch, <<>> if none.
SetTable(next, body) ==
    /\ Len(next.rows) <= MaxTableRows
    /\ Len(next.fetches) <= MaxFetches
    /\ table' = [next EXCEPT !.sent = body]
    /\ UNCHANGED << registros, nextId, now, pc, req, valores, resp, users,
                    cachedWatermarkBuffer, cachedHeaderBuffer, doc, stream,
                    layout, summary >>

\* useState(() => [createEmptyRow()]) and the first render.
Mount ==
    /\ ~table.mounted
    /\ SetTable(Commit([table EXCEPT !.rows = << createEmptyRow(<<>>) >>,
                                     !.mounted = TRUE]), <<>>)

\* fetchExistingRows, from the answer of GET /api/registros on: the records
\* normalised, then one empty row; one empty row alone after a failure.
fetchExistingRows(p) ==
    /\ table.mounted
    /\ pc[p] = "done"
    /\ req[p].op = "list"
    /\ LET NormalizedRow(registro) ==
               LET rawDependencia == ToUpperCase(Trim(registro.dependencia))
                   rawGrado == ToUpperCase(Trim(registro.grado))
                   rawMotivo == Trim(registro.motivo)
                   normalizedMotivo == findMotivoOption(rawMotivo)
               IN [id |-> registro.id,
                   persistedId |-> registro.id,
                   dependencia |-> IF rawDependencia \in DEPENDENCIA_SET
                                   THEN rawDependencia ELSE <<>>,
                   identificacion |-> Trim(registro.identificacion),
                   grado |-> IF rawGrado \in GRADE_SET THEN rawGrado ELSE <<>>,
                   nombresCompletos |-> Trim(registro.nombresCompletos),
                   motivo |-> IF normalizedMotivo # Undefined
                              THEN normalizedMotivo ELSE rawMotivo,
                   detalle |-> Trim(registro.detalle)]
           normalizedRows ==
               IF resp[p].status = 200
               THEN [i \in 1..Len(resp[p].body.registros) |->
                        NormalizedRow(resp[p].body.registros[i])]
               ELSE <<>>
       IN SetTable(Commit([table EXCEPT
               !.rows = Append(normalizedRows, createEmptyRow(normalizedRows))]),
               <<>>)

handleAddRow ==
    /\ table.mounted
    /\ SetTable(Commit([table EXCEPT !.rows = Append(@, createEmptyRow(@))]), <<>>)

\* The updater removes the unsaved row of the id, never the only row, and
\* appends an empty row when no unsaved row is left.
handleRemoveRow ==
    /\ table.mounted
    /\ \E id \in { table.rows[i].id : i \in 1..Len(table.rows) } :
        LET current == table.rows
            filtered ==
                SelectSeq(current, LAMBDA row : ~(row.id = id /\ row.persistedId = 0))
            removed ==
                IF Len(current) = 1 THEN current
                ELSE IF \E i \in 1..Len(filtered) : filtered[i].persistedId = 0
                THEN filtered
                ELSE Append(filtered, createEmptyRow(filtered))
        IN SetTable(Commit([table EXCEPT !.rows = removed]), <<>>)

\* The map callback of handleCellChange without its persistedId test.
ChangedUnguarded(row, id, key, value) ==
    IF row.id # id THEN row
    ELSE [row EXCEPT ![key] = value]

\* The map callback of handleCellChange.
Changed(row, id, key, value) ==
    IF row.id # id \/ row.persistedId # 0 THEN row
    ELSE IF key = "grado"
    THEN [row EXCEPT !.grado = IF ToUpperCase(value) \in GRADE_SET
                               THEN ToUpperCase(value) ELSE <<>>]
    ELSE IF key = "identificacion"
    THEN [row EXCEPT !.identificacion = value, !.grado = <<>>,
                     !.nombresCompletos = <<>>]
    ELSE IF key = "dependencia"
    THEN [row EXCEPT !.dependencia = IF ToUpperCase(value) \in DEPENDENCIA_SET
                                     THEN ToUpperCase(value) ELSE <<>>]
    ELSE IF key = "motivo"
    THEN [row EXCEPT !.motivo = IF findMotivoOption(value) = Undefined
                                THEN <<>> ELSE findMotivoOption(value)]
    ELSE [row EXCEPT ![key] = value]

handleCellChange(cells) ==
    /\ table.mounted
    /\ \E id \in { table.rows[i].id : i \in 1..Len(table.rows) }, cell \in cells :
        SetTable(Commit([table EXCEPT
            !.rows = [i \in 1..Len(@) |-> Changed(@[i], id, cell.key, cell.value)]]),
            <<>>)

\* handleCellPaste with the parsed lines of the clipboard text: nothing when
\* the target row is persisted; the first line goes to the target row, the
\* lines after it to the rows after it, a row being appended when there is
\* none at insertIndex.
handleCellPaste(texts) ==
    /\ table.mounted
    /\ \E rowId \in { table.rows[i].id : i \in 1..Len(table.rows) }, text \in texts :
        LET columns ==
                << "identificacion", "grado", "nombresCompletos", "dependencia",
                   "motivo", "detalle" >>
            startColumnIndex == text.startColumnIndex
            RECURSIVE applyValues(_, _, _)
            applyValues(targetRow, values, valueIndex) ==
                IF valueIndex > Len(values) THEN targetRow
                ELSE LET at == startColumnIndex + valueIndex - 1
                         normalizedValue == Trim(values[valueIndex])
                         upper == ToUpperCase(normalizedValue)
                         matched == findMotivoOption(normalizedValue)
                         nextRow ==
                             IF at > Len(columns) THEN targetRow
                             ELSE IF columns[at] = "grado"
                             THEN [targetRow EXCEPT
                                     !.grado = IF upper \in GRADE_SET
                                               THEN upper ELSE <<>>]
                             ELSE IF columns[at] = "dependencia"
                             THEN [targetRow EXCEPT
                                     !.dependencia = IF upper \in DEPENDENCIA_SET
                                                     THEN upper ELSE <<>>]
                             ELSE IF columns[at] = "motivo"
                             THEN [targetRow EXCEPT
                                     !.motivo = IF matched = Undefined
                                                THEN <<>> ELSE matched]
                             ELSE [targetRow EXCEPT ![columns[at]] = normalizedValue]
                     IN applyValues(nextRow, values, valueIndex + 1)
            RECURSIVE PasteOthers(_, _, _)
            PasteOthers(nextRows, otherValues, insertIndex) ==
                IF otherValues = <<>> THEN nextRows
                ELSE LET spliced ==
                             IF insertIndex > Len(nextRows)
                             THEN Append(nextRows, createEmptyRow(nextRows))
                             ELSE nextRows
                     IN PasteOthers(
                            [spliced EXCEPT ![insertIndex] =
                                applyValues(@, Head(otherValues), 1)],
                            Tail(otherValues), insertIndex + 1)
            current == table.rows
            rowIndex == CHOOSE i \in 1..Len(current) : current[i].id = rowId
            pasted ==
                IF current[rowIndex].persistedId # 0 THEN current
                ELSE PasteOthers(
                        [current EXCEPT ![rowIndex] =
                            applyValues(@, Head(text.parsedLines), 1)],
                        Tail(text.parsedLines), rowIndex + 1)
        IN SetTable(Commit([table EXCEPT !.rows = pasted]), <<>>)

\* handleSaveAll up to its fetch, for the user "u": the request is sent when
\* no check stops it.
handleSaveAll ==
    /\ table.mounted
    /\ LET usuarioActual == Trim(<<"u">>)
           editableRows == SelectSeq(table.rows, LAMBDA row : row.persistedId = 0)
           duplicateMessages == buildDuplicateMessages(table.rows)
       IN /\ Len(usuarioActual) > 0
          /\ \A i \in 1..Len(editableRows) :
                editableRows[i].id \notin DOMAIN duplicateMessages
          /\ \A i \in 1..Len(editableRows) :
                \A key \in REQUIRED_COLUMNS : Len(Trim(editableRows[i][key])) # 0
          /\ Len(sanitizedRows(table.rows)) > 0
          /\ SetTable(table, [usuario |-> usuarioActual,
                              registros |-> sanitizedRows(table.rows)])

\* requestPersonalData from its await on: the request k is answered 404,
\* with the person's data, or fails; the catch removes a "pending" entry.
PersonalAnswered ==
    \E k \in DOMAIN table.fetches :
        /\ table.fetches[k].state = "sent"
        /\ LET key == table.fetches[k].key
               payload == [documento |-> key, siglas |-> <<"c", "b", "o", "p">>,
                           nombresApellidos |-> <<"n", " ">>]
               current == table.personalCache
           IN \E outcome \in { "404", "error", "ok" } :
                SetTable(Commit([table EXCEPT
                    !.fetches[k].state = outcome,
                    !.personalCache =
                        IF outcome = "404"
                        THEN MapSet(current, key, [status |-> "not-found"])
                        ELSE IF outcome = "ok"
                        THEN MapSet(current, key,
                                [status |-> "found",
                                 data |-> [documento |-> ToUpperCase(Trim(payload.documento)),
                                           grado |-> ToUpperCase(Trim(payload.siglas)),
                                           nombresCompletos |->
                                               Trim(payload.nombresApellidos)]])
                        ELSE IF key \in DOMAIN current /\ current[key].status = "pending"
                        THEN [n \in DOMAIN current \ { key } |-> current[n]]
                        ELSE current]), <<>>)

\* The component over the tables of the PDF handler, with identifications
\* too short to be looked up. Typed in: an identification of white space.
\* Pasted into the first column: one line with the identification of a
\* stored record in another case, and two lines whose identifications are
\* equal after trim().toUpperCase().
NextTable ==
    LET Line(identificacion) ==
            << identificacion, <<"c", "b", "o", "p">>, <<"n">>, <<"a">>, <<"m">> >>
        ShortCells == { [key |-> "identificacion", value |-> <<" ">>] }
        ShortTexts ==
            { [startColumnIndex |-> 1, parsedLines |-> << Line(<<" ", "A">>) >>],
              [startColumnIndex |-> 1,
               parsedLines |-> << Line(<<"b">>), Line(<<"B", " ">>) >>] }
    IN \/ Mount
       \/ GetRegistros(1, { <<"u">> })
       \/ fetchExistingRows(1)
       \/ Finish(1)
       \/ handleAddRow
       \/ handleRemoveRow
       \/ handleCellChange(ShortCells)
       \/ handleCellPaste(ShortTexts)
       \/ handleSaveAll

SpecTable == InitPdf /\ [][NextTable]_vars

\* The component with document numbers of nine characters, which are looked
\* up: one typed in, and a clipboard text whose two lines hold the same number.
NextLookup ==
    LET Documento(c) == << c, "0", "0", "0", "0", "0", "0", "0", "1" >>
        LongCells == { [key |-> "identificacion", value |-> Documento("a")] }
        LongTexts ==
            { [startColumnIndex |-> 1,
               parsedLines |-> << << Documento("A") >>, << Documento("a") >> >>] }
    IN \/ Mount
       \/ handleRemoveRow
       \/ handleCellChange(LongCells)
       \/ handleCellPaste(LongTexts)
       \/ PersonalAnswered

SpecLookup == Init /\ [][NextLookup]_vars

\* ================================================================== claims
\* The fields of a request body the claims speak of, computed from the
\* request itself and not from the handler's intermediate values.
TrimmedIdent(body, i) == TrimEnd(TrimStart(body.registros[i].identificacion))
TrimmedUnit(body, i) == TrimEnd(TrimStart(body.registros[i].dependencia))
TrimmedOwner(body) == TrimEnd(TrimStart(body.usuario))
IdentKey(body, i) == ToUpperCase(TrimmedIdent(body, i))

RequiredFields ==
    { "dependencia", "identificacion", "grado", "nombresCompletos", "motivo" }

\* The body has a usuario, a non-empty list, and every required field of
\* every record is a non-empty string.
WellFormed(body) ==
    /\ body.usuario # Undefined
    /\ body.usuario # <<>>
    /\ body.registros # <<>>
    /\ \A i \in 1..Len(body.registros) : \A f \in RequiredFields :
          body.registros[i][f] # Undefined /\ body.registros[i][f] # <<>>

Accepted(body) == WellFormed(body) /\ TrimmedOwner(body) # <<>>

\* Positions of the batch whose identification repeats an earlier one.
Repeats(body) ==
    { j \in 1..Len(body.registros) :
        \E i \in 1..(j - 1) : IdentKey(body, i) = IdentKey(body, j) }

MinOf(S) == CHOOSE x \in S : \A y \in S : x <= y

EarliestRepeat(body) == MinOf(Repeats(body))

FirstOccurrence(body, j) ==
    MinOf({ i \in 1..Len(body.registros) : IdentKey(body, i) = IdentKey(body, j) })

\* p starts handling a POST /api/registros in this step.
StartsPost(p) == pc[p] = "idle" /\ pc'[p] # "idle" /\ req'[p].op = "post"

\* C1: no two persisted records have identifications that are equal after
\* trimming and upper-casing, whatever their unit or owner.
C1_UniqueIdentificacion ==
    \A r1, r2 \in registros :
        r1 # r2 =>
            ToUpperCase(TrimEnd(TrimStart(r1.identificacion)))
                # ToUpperCase(TrimEnd(TrimStart(r2.identificacion)))

\* C2: a submission (accepted by validation) in which two candidates have
\* identifications equal after trimming and upper-casing is answered 409
\* with source "payload" and the trimmed unit of the first occurrence of
\* the earliest repeated identification, and nothing is inserted: the
\* request ends in that step and the table is left as it was.
C2_PayloadConflict ==
    [][\A p \in Procs :
        (StartsPost(p) /\ Accepted(req'[p].body) /\ Repeats(req'[p].body) # {}) =>
            LET body == req'[p].body
                j == EarliestRepeat(body)
            IN /\ pc'[p] = "done"
               /\ resp'[p].status = 409
               /\ resp'[p].body.source = "payload"
               /\ resp'[p].body.dependencia = TrimmedUnit(body, FirstOccurrence(body, j))
               /\ registros' = registros
               /\ nextId' = nextId]_vars

\* C2 witness: a batch of three rows whose third row repeats, in another
\* letter case, the identification of the second row; the unit reported is
\* that of the second row.
C2_Witness ==
    \E p \in Procs :
        /\ pc[p] = "done"
        /\ req[p].op = "post"
        /\ resp[p].status = 409
        /\ resp[p].body.source = "payload"
        /\ Len(req[p].body.registros) = 3
        /\ Repeats(req[p].body) = { 3 }
        /\ FirstOccurrence(req[p].body, 3) = 2
        /\ TrimmedIdent(req[p].body, 2) # TrimmedIdent(req[p].body, 3)
        /\ resp[p].body.dependencia # TrimmedUnit(req[p].body, 3)
        /\ resp[p].body.dependencia # TrimmedUnit(req[p].body, 1)

\* The SELECT of p's storage check returns in this step.
SelectReturns(p) ==
    /\ pc[p] = "select"
    /\ pc'[p] # "select"
    /\ ~(pc'[p] = "done" /\ resp'[p].status = 500)

\* Stored rows whose identification is that of a candidate of the body.
StoredMatches(body) ==
    { r \in registros :
        \E i \in 1..Len(body.registros) : r.identificacion = TrimmedIdent(body, i) }

\* C3: when the storage check of a batch finds a candidate's identification
\* already persisted, the answer is 409 with source "database" naming a
\* stored record whose identification is a candidate's, and the table is
\* left exactly as it was.
C3_StorageConflict ==
    [][\A p \in Procs :
        (SelectReturns(p) /\ StoredMatches(req[p].body) # {}) =>
            /\ pc'[p] = "done"
            /\ resp'[p].status = 409
            /\ resp'[p].body.source = "database"
            /\ \E r \in StoredMatches(req[p].body) :
                  /\ resp'[p].body.identificacion = r.identificacion
                  /\ resp'[p].body.dependencia = r.dependencia
            /\ registros' = registros
            /\ nextId' = nextId]_vars

\* C3 witness: a rejected batch of which one candidate is persisted and
\* another is not.
C3_Witness ==
    \E p \in Procs :
        /\ pc[p] = "done"
        /\ req[p].op = "post"
        /\ resp[p].status = 409
        /\ resp[p].body.source = "database"
        /\ \E i, k \in 1..Len(req[p].body.registros) :
              /\ \E r \in registros : r.identificacion = TrimmedIdent(req[p].body, i)
              /\ \A r \in registros : r.identificacion # TrimmedIdent(req[p].body, k)
              /\ \A r \in registros :
                    ToUpperCase(r.identificacion) # IdentKey(req[p].body, k)

\* The INSERT of p's batch runs in this step.
InsertRuns(p) == pc[p] = "insert" /\ pc'[p] = "done"

\* Row r holds candidate i of the body, owned by the trimmed usuario.
HoldsCandidate(r, body, i) ==
    /\ r.identificacion = TrimmedIdent(body, i)
    /\ r.dependencia = TrimmedUnit(body, i)
    /\ r.usuario = TrimmedOwner(body)

\* C4: the insert of a batch is one atomic step: the table gains exactly
\* one record per candidate, owned by the trimmed usuario, and the answer
\* is 201 with total equal to the batch length; or the insert fails, the
\* answer is 500 and no row of the batch is persisted.  No step of any
\* request adds rows to the table in another way, so no state holds only
\* part of a batch.
C4_AtomicInsert ==
    [][/\ \A p \in Procs :
            InsertRuns(p) =>
                LET body == req[p].body
                    added == registros' \ registros
                IN \/ /\ resp'[p].status = 201
                      /\ resp'[p].body.total = Len(body.registros)
                      /\ registros \subseteq registros'
                      /\ Cardinality(added) = Len(body.registros)
                      /\ \A i \in 1..Len(body.registros) :
                            \E r \in added : HoldsCandidate(r, body, i)
                      /\ \A r \in added : \A q \in registros : q.id # r.id
                   \/ /\ resp'[p].status = 500
                      /\ registros' = registros
       /\ (registros' \ registros # {}) =>
            \E p \in Procs :
                /\ InsertRuns(p)
                /\ Cardinality(registros' \ registros) = Len(req[p].body.registros)]_vars

\* C4 witness: a batch of two rows has been inserted and answered 201 with
\* total 2 while another submission is in flight.
C4_Witness ==
    \E p, q \in Procs :
        /\ p # q
        /\ pc[p] = "done"
        /\ req[p].op = "post"
        /\ resp[p].status = 201
        /\ resp[p].body.total = 2
        /\ pc[q] \in { "select", "insert" }
        /\ Cardinality({ r \in registros : r.usuario = TrimmedOwner(req[p].body) }) = 2

\* The number of stored rows with a given identification.
CountIdent(rows, ident) == Cardinality({ r \in rows : r.identificacion = ident })

\* C5: the storage check and the insert are separate steps and the insert
\* is not stopped by rows stored in between: the step in which the check
\* passes changes no row, and a successful insert adds one row for each
\* identification of the batch, however many stored rows already carry it.
C5_CheckThenInsert ==
    [][\A p \in Procs :
        /\ (pc[p] = "select" /\ pc'[p] = "insert") =>
              registros' = registros /\ StoredMatches(req[p].body) = {}
        /\ (InsertRuns(p) /\ resp'[p].status = 201) =>
              \A i \in 1..Len(req[p].body.registros) :
                  CountIdent(registros', TrimmedIdent(req[p].body, i))
                      = CountIdent(registros, TrimmedIdent(req[p].body, i)) + 1]_vars

\* C5 witness: two submissions of different users carried the same
\* identification, both were answered 201 and both rows are persisted.
C5_Witness ==
    \E p, q \in Procs :
        /\ p # q
        /\ pc[p] = "done" /\ req[p].op = "post" /\ resp[p].status = 201
        /\ pc[q] = "done" /\ req[q].op = "post" /\ resp[q].status = 201
        /\ \E r1, r2 \in registros :
              /\ r1.id # r2.id
              /\ r1.identificacion = r2.identificacion
              /\ r1.usuario = TrimmedOwner(req[p].body)
              /\ r2.usuario = TrimmedOwner(req[q].body)
              /\ r1.usuario # r2.usuario

\* p handles a DELETE /api/registros/:id in this step.
Deletes(p) == pc[p] = "idle" /\ pc'[p] = "done" /\ req'[p].op = "delete"

QueryOwner(q) == IF q = Undefined THEN <<>> ELSE TrimEnd(TrimStart(q))

\* C6: DELETE removes the record with the given id only if its owner is
\* the trimmed usuario, and then exactly that record; when no record has
\* the id or its owner is another user the answer is 404; whenever the
\* answer is not a success the table is unchanged.
C6_DeleteOwnOnly ==
    [][\A p \in Procs :
        Deletes(p) =>
            LET id == req'[p].id
                owner == QueryOwner(req'[p].usuario)
                own == { r \in registros : r.id = id /\ r.usuario = owner }
            IN /\ resp'[p].status = 200 =>
                    /\ Cardinality(own) = 1
                    /\ registros' = registros \ own
               /\ resp'[p].status # 200 => registros' = registros
               /\ (id # NaN /\ owner # <<>> /\ own = {}) =>
                    resp'[p].status \in { 404, 500 }
               /\ own # {} => resp'[p].status \in { 200, 500 }
               /\ resp'[p].status = 404 => own = {}]_vars

\* C6 witness: a delete naming the id of another user's record has been
\* answered 404 and the record is still there.
C6_Witness ==
    \E p \in Procs :
        /\ pc[p] = "done"
        /\ req[p].op = "delete"
        /\ resp[p].status = 404
        /\ \E r \in registros :
              r.id = req[p].id /\ r.usuario # QueryOwner(req[p].usuario)

\* p handles a GET /api/registros/por-dependencia in this step and the
\* query succeeds.
Aggregates(p) ==
    /\ pc[p] = "idle"
    /\ pc'[p] = "done"
    /\ req'[p].op = "por-dependencia"
    /\ resp'[p].status = 200

RECURSIVE SumTotals(_)
SumTotals(s) == IF s = <<>> THEN 0 ELSE Head(s).total + SumTotals(Tail(s))

\* C7: the totals returned by the per-unit aggregation add up to the
\* number of persisted records.
C7_TotalsSum ==
    [][\A p \in Procs :
        Aggregates(p) =>
            SumTotals(resp'[p].body.dependencias) = Cardinality(registros)]_vars

\* C7 witness: an aggregation answered over three records of two users in
\* two units.
C7_Witness ==
    \E p \in Procs :
        /\ pc[p] = "done"
        /\ req[p].op = "por-dependencia"
        /\ resp[p].status = 200
        /\ Len(resp[p].body.dependencias) = 2
        /\ Cardinality(registros) = 3
        /\ Cardinality({ r.usuario : r \in registros }) = 2
        /\ \E r1, r2 \in registros :
              r1.id # r2.id /\ r1.dependencia = r2.dependencia /\ r1.usuario = r2.usuario

\* C8: the aggregation returns one entry per stored unit value and no
\* other, each with the number of records of that unit whoever owns them,
\* in non-increasing order of total.
C8_Groups ==
    [][\A p \in Procs :
        Aggregates(p) =>
            LET ds == resp'[p].body.dependencias IN
            /\ { ds[i].dependencia : i \in 1..Len(ds) }
                  = { r.dependencia : r \in registros }
            /\ \A i, j \in 1..Len(ds) :
                  i # j => ds[i].dependencia # ds[j].dependencia
            /\ \A i \in 1..Len(ds) :
                  /\ ds[i].total =
                        Cardinality({ r \in registros : r.dependencia = ds[i].dependencia })
                  /\ ds[i].total >= 1
            /\ \A i \in 1..(Len(ds) - 1) : ds[i].total >= ds[i + 1].total]_vars

\* C8 witness: two units with different totals, the larger one holding
\* records of two owners.
C8_Witness ==
    \E p \in Procs :
        /\ pc[p] = "done"
        /\ req[p].op = "por-dependencia"
        /\ resp[p].status = 200
        /\ Len(resp[p].body.dependencias) = 2
        /\ resp[p].body.dependencias[1].total = 2
        /\ resp[p].body.dependencias[2].total = 1
        /\ \E r1, r2 \in registros :
              /\ r1.dependencia = resp[p].body.dependencias[1].dependencia
              /\ r2.dependencia = r1.dependencia
              /\ r1.usuario # r2.usuario

\* p handles a GET /api/registros in this step and the query succeeds.
Lists(p) ==
    /\ pc[p] = "idle"
    /\ pc'[p] = "done"
    /\ req'[p].op = "list"
    /\ resp'[p].status = 200

\* C9: the list returns exactly the records whose owner is the trimmed
\* usuario, each once, ordered by unit ascending and within a unit by
\* creation time descending.
C9_ListOwnOrdered ==
    [][\A p \in Procs :
        Lists(p) =>
            LET rs == resp'[p].body.registros
                owner == QueryOwner(req'[p].usuario)
            IN /\ { rs[i] : i \in 1..Len(rs) } = { r \in registros : r.usuario = owner }
               /\ \A i, j \in 1..Len(rs) : i # j => rs[i] # rs[j]
               /\ \A i \in 1..(Len(rs) - 1) :
                     \/ StrLess(rs[i].dependencia, rs[i + 1].dependencia)
                     \/ /\ rs[i].dependencia = rs[i + 1].dependencia
                        /\ rs[i].creadoEn >= rs[i + 1].creadoEn]_vars

\* C9 witness: a list of two records of one unit created at different
\* times, answered while another user's record is persisted.
C9_Witness ==
    \E p \in Procs :
        /\ pc[p] = "done"
        /\ req[p].op = "list"
        /\ resp[p].status = 200
        /\ Len(resp[p].body.registros) = 2
        /\ resp[p].body.registros[1].dependencia = resp[p].body.registros[2].dependencia
        /\ resp[p].body.registros[1].creadoEn > resp[p].body.registros[2].creadoEn
        /\ \E r \in registros : r.usuario # QueryOwner(req[p].usuario)

\* C10: a POST whose body fails validation, or whose usuario is blank once
\* trimmed, is answered 400 in that step and the table is unchanged.
C10_Rejected ==
    [][\A p \in Procs :
        (StartsPost(p) /\ ~Accepted(req'[p].body)) =>
            /\ pc'[p] = "done"
            /\ resp'[p].status = 400
            /\ registros' = registros
            /\ nextId' = nextId]_vars

\* C10 witness: a body whose usuario is only white space has been answered
\* 400 while records are persisted.
C10_Witness ==
    \E p \in Procs :
        /\ pc[p] = "done"
        /\ req[p].op = "post"
        /\ resp[p].status = 400
        /\ WellFormed(req[p].body)
        /\ registros # {}

\* p handles a POST /api/login in this step.
LogsIn(p) == pc[p] = "idle" /\ pc'[p] = "done" /\ req'[p].op = "login"

\* A well-formed login whose email has no user / whose email has a user
\* and whose password is not that user's.
NoSuchUser(body) ==
    /\ loginSchema(body)
    /\ \A u \in users : u.email # body.email

BadPassword(body) ==
    /\ loginSchema(body)
    /\ \E u \in users : u.email = body.email
    /\ \A u \in users : u.email = body.email => u.passwordHash # Hash(body.password)

\* C11: a login with an email that has no user and a login with an existing
\* email and a wrong password are answered alike, status 401 and the same
\* body (whenever the database answers both), and no login changes table
\* users or table registros.
C11_UniformLoginFailure ==
    [][\A p \in Procs :
        LogsIn(p) =>
            /\ users' = users
            /\ registros' = registros
            /\ (resp'[p].status # 500
                  /\ (NoSuchUser(req'[p].body) \/ BadPassword(req'[p].body))) =>
                    /\ resp'[p].status = 401
                    /\ \A q \in Procs \ { p } :
                          ( /\ pc[q] = "done"
                            /\ req[q].op = "login"
                            /\ resp[q].status # 500
                            /\ \/ NoSuchUser(req'[p].body) /\ BadPassword(req[q].body)
                               \/ BadPassword(req'[p].body) /\ NoSuchUser(req[q].body) )
                          => resp'[p] = resp[q]]_vars

\* C11 witness: one login with an unknown email and one with the known
\* email and a wrong password have both been answered, records persisted.
C11_Witness ==
    \E p, q \in Procs :
        /\ pc[p] = "done" /\ req[p].op = "login" /\ NoSuchUser(req[p].body)
        /\ pc[q] = "done" /\ req[q].op = "login" /\ BadPassword(req[q].body)
        /\ resp[p].status = 401
        /\ resp[q].status = 401
        /\ registros # {}

\* The allocation has run on the layout's inputs.
Allocated == layout.columns # <<>>

RECURSIVE SumWidths(_)
SumWidths(cs) == IF cs = <<>> THEN 0 ELSE Head(cs).width + SumWidths(Tail(cs))

\* C12: for a non-empty list of columns with non-negative ratios and
\* minimum widths and a non-negative body width, the allocation gives one
\* width per column, none negative, and the widths add up to the body
\* width exactly.
C12_WidthsSum ==
    Allocated =>
        /\ Len(layout.columns) = Len(layout.definitions)
        /\ \A i \in 1..Len(layout.columns) : layout.columns[i].width >= 0
        /\ SumWidths(layout.columns) = layout.bodyWidth

\* C12 witness: minimum widths that exceed the body: a column before the
\* last was cut down to what remained and the last column got nothing.
C12_Witness ==
    /\ Allocated
    /\ layout.bodyWidth > 0
    /\ Len(layout.columns) = 3
    /\ layout.columns[2].width > 0
    /\ layout.columns[2].width < layout.columns[2].minWidth
    /\ layout.columns[3].width = 0

\* C13: with the program's seven column definitions and the body width of
\* the A4 landscape page with margin 40, every column is at least as wide
\* as its own minimum width.
C13_MinWidths ==
    (Allocated /\ layout.definitions = columnDefinitions /\ layout.bodyWidth = 76189) =>
        \A i \in 1..Len(layout.columns) :
            layout.columns[i].width >= layout.columns[i].minWidth

\* Request slot p has drawn a document to its end.
Produced(p) ==
    /\ req[p].op = "pdf"
    /\ \/ pc[p] = "pdfFlush"
       \/ pc[p] = "done" /\ resp[p].status = 200 /\ resp[p].body.complete

\* The positions in the document of slot p of the drawings of one kind.
Drawings(p, what) ==
    { i \in 1..Len(doc[p].drawn) : doc[p].drawn[i].what = what }

IsRow(e) == e.what = "row"

\* The rows drawn, in the order of drawing.
RowDraws(p) == SelectSeq(doc[p].drawn, IsRow)

\* Where the pen stands when row i is about to be placed: under the table
\* header of the first page, or under the row before it.
Before(p, i) ==
    IF i = 1
    THEN LET h == doc[p].drawn[MinOf(Drawings(p, "tableHeader"))]
         IN [page |-> h.page, y |-> h.y + TableHeaderHeight + MoveDownTenth]
    ELSE LET r == RowDraws(p)[i - 1]
         IN [page |-> r.page, y |-> r.y + r.height + RowGap]

\* Row i is drawn in the order of the query and at the height of its
\* tallest cell plus the fixed padding.
RowKept(p, i) ==
    /\ RowDraws(p)[i].id = doc[p].rows[i].id
    /\ RowDraws(p)[i].height =
          doc[p].lines[i] * LineHeight + RowPadding * 2 + RowExtra

\* Row i is on the page where the pen stood, at the pen.
OnCurrentPage(p, i) ==
    /\ RowDraws(p)[i].page = Before(p, i).page
    /\ RowDraws(p)[i].y = Before(p, i).y

\* Row i is on the next page, under a table header drawn at the top margin.
OnNewPage(p, i) ==
    /\ RowDraws(p)[i].page = Before(p, i).page + 1
    /\ RowDraws(p)[i].y = Top + TableHeaderHeight + MoveDownTenth
    /\ \E k \in Drawings(p, "tableHeader") :
          /\ doc[p].drawn[k].page = RowDraws(p)[i].page
          /\ doc[p].drawn[k].y = Top

Asked(p, i) == RowDraws(p)[i].height + (IF i = 1 THEN 0 ELSE RowGap)

C15_NoRecordsPage ==
    \A p \in Procs :
        (Produced(p) /\ doc[p].rows = <<>>) =>
            /\ doc[p].ended
            /\ doc[p].page = 1
            /\ \A i \in 1..Len(doc[p].drawn) : doc[p].drawn[i].page = 1
            /\ Cardinality(Drawings(p, "noRecords")) = 1
            /\ Drawings(p, "tableHeader") = {}
            /\ Drawings(p, "row") = {}
            /\ Drawings(p, "qr") = {}
            /\ Drawings(p, "code") = {}

\* C15 witness: the answer to a user without records has been sent, the
\* QR image having been generated and both images loaded.
C15_Witness ==
    /\ Produced(1)
    /\ pc[1] = "done"
    /\ doc[1].rows = <<>>
    /\ doc[1].qrBuffer # NoBuffer
    /\ doc[1].watermarkBuffer # NoBuffer
    /\ doc[1].headerBuffer # NoBuffer
    /\ Drawings(1, "noRecords") # {}

\* C16: with a watermark image every page of the document, the first and
\* every page added for a row or for the QR block, has the watermark; with
\* none, no page has it and the document is drawn to its end.
C16_WatermarkEveryPage ==
    \A p \in Procs :
        Produced(p) =>
            /\ doc[p].ended
            /\ IF doc[p].watermarkBuffer # NoBuffer
               THEN \A n \in 1..doc[p].page :
                       \E i \in Drawings(p, "watermark") : doc[p].drawn[i].page = n
               ELSE Drawings(p, "watermark") = {}

\* C16 witness: a document with watermark of three pages or more, the last
\* of them added for the QR block.
C16_Witness ==
    /\ Produced(1)
    /\ doc[1].watermarkBuffer # NoBuffer
    /\ doc[1].page >= 3
    /\ \E i \in Drawings(1, "qr") : doc[1].drawn[i].page = doc[1].page
    /\ \A i \in Drawings(1, "row") : doc[1].drawn[i].page < doc[1].page
    /\ Drawings(1, "watermark") # {}

\* The banner is on the first page only, and the first page has one table
\* header, drawn before every row.
BannerAndFirstHeader(p) ==
    /\ \A i \in Drawings(p, "banner") : doc[p].drawn[i].page = 1
    /\ Cardinality(Drawings(p, "banner")) =
          (IF doc[p].headerBuffer # NoBuffer THEN 1 ELSE 0)
    /\ Cardinality({ k \in Drawings(p, "tableHeader") : doc[p].drawn[k].page = 1 }) = 1
    /\ \A k \in Drawings(p, "tableHeader"), i \in Drawings(p, "row") :
          doc[p].drawn[k].page = 1 => k < i

\* The table headers of page n.
HeadersOf(p, n) == { k \in Drawings(p, "tableHeader") : doc[p].drawn[k].page = n }

\* The drawings of page n.
OnPage(p, n) == { i \in 1..Len(doc[p].drawn) : doc[p].drawn[i].page = n }

C18_QrAfterRows ==
    \A p \in Procs :
        Produced(p) =>
            /\ doc[p].ended
            /\ Len(RowDraws(p)) = Len(doc[p].rows)
            /\ Cardinality(Drawings(p, "qr")) =
                  (IF doc[p].qrBuffer # NoBuffer /\ doc[p].rows # <<>> THEN 1 ELSE 0)
            /\ \A i \in Drawings(p, "qr"), k \in Drawings(p, "row") : k < i
            /\ \A i \in Drawings(p, "code") : i - 1 \in Drawings(p, "qr")
            /\ \A i \in Drawings(p, "qr") :
                  /\ i + 1 \in Drawings(p, "code")
                  /\ doc[p].drawn[i + 1].page = doc[p].drawn[i].page
                  /\ doc[p].drawn[i + 1].y = doc[p].drawn[i].y + QrSize + QrCodeGap

\* C18 witness: QR generation failed and the document, two rows or more
\* and no QR block, has been sent whole with status 200.
C18_Witness ==
    /\ Produced(1)
    /\ pc[1] = "done"
    /\ resp[1].status = 200
    /\ doc[1].qrBuffer = NoBuffer
    /\ Len(doc[1].rows) >= 2
    /\ Len(RowDraws(1)) = Len(doc[1].rows)
    /\ Drawings(1, "qr") = {}

\* A failure has just been caught in the PDF handler of slot p.
Caught(p) == doc[p].thrown = "none" /\ doc'[p].thrown # "none"

\* C19: a failure caught before anything of the response was sent is
\* answered with status 500 and a JSON message; one caught after the
\* response began sends neither and ends the response; and the response
\* of every PDF request is closed in the end.
C19_FailureClosesResponse ==
    /\ [][\A p \in Procs :
            Caught(p) =>
                /\ stream'[p].ended
                /\ doc'[p].thrown = "beforeHeaders" =>
                      /\ resp'[p].status = 500
                      /\ "message" \in DOMAIN resp'[p].body
                /\ doc'[p].thrown = "afterHeaders" =>
                      /\ resp'[p].status # 500
                      /\ "message" \notin DOMAIN resp'[p].body]_vars
    /\ \A p \in Procs :
          (req[p].op = "pdf" /\ pc[p] # "idle") ~> (stream[p].ended /\ pc[p] = "done")

\* C19 witness: the records were read, drawing failed before anything was
\* sent, and the client got status 500.
C19_Witness ==
    /\ req[1].op = "pdf"
    /\ pc[1] = "done"
    /\ doc[1].thrown = "beforeHeaders"
    /\ doc[1].rows # <<>>
    /\ resp[1].status = 500
    /\ stream[1].ended

\* Slot p takes a step of a request of kind op.
StepOf(p, op) ==
    /\ req'[p].op = op
    /\ << pc[p], req[p], resp[p], doc[p], stream[p] >>
          # << pc'[p], req'[p], resp'[p], doc'[p], stream'[p] >>

\* C20: no step changes a field of a record that stays in the table; a
\* step of POST /api/registros only adds records, a step of DELETE removes
\* at most one, and the steps of login, list, aggregation and PDF requests
\* leave the table as it is.
C20_RecordsFrame ==
    [][/\ \A r \in registros, s \in registros' : r.id = s.id => r = s
       /\ \A p \in Procs :
            /\ StepOf(p, "post") => registros \subseteq registros'
            /\ StepOf(p, "delete") =>
                  /\ registros' \subseteq registros
                  /\ Cardinality(registros \ registros') <= 1
            /\ \A op \in { "login", "list", "por-dependencia", "pdf" } :
                  StepOf(p, op) => registros' = registros]_vars

\* C20 witness: after a PDF of the table was produced, a DELETE has
\* removed one record of a user and left another record of that user.
C20_Witness ==
    /\ pc[1] = "done"
    /\ req[1].op = "delete"
    /\ resp[1].status = 200
    /\ doc[1].ended
    /\ \E r \in registros : r.usuario = RawUsuario(req[1].usuario)

\* C21: once a cache holds a buffer, no step replaces or clears it, so
\* that each image file is read successfully at most once.
C21_CacheLoadedOnce ==
    [][/\ cachedWatermarkBuffer # NoBuffer =>
             cachedWatermarkBuffer' = cachedWatermarkBuffer
       /\ cachedHeaderBuffer # NoBuffer =>
             cachedHeaderBuffer' = cachedHeaderBuffer]_vars

\* Stored rows whose identification is a candidate's up to letter case but
\* not letter for letter.
CaseOnlyMatches(body) ==
    { r \in registros :
        \E i \in 1..Len(body.registros) :
            /\ ToUpperCase(r.identificacion) = IdentKey(body, i)
            /\ r.identificacion # TrimmedIdent(body, i) }

\* C22: the storage check compares the trimmed identifications letter for
\* letter: a batch none of whose candidates is stored in the same spelling
\* passes the check, whatever is stored in another letter case, and its
\* insert adds every candidate; a conflict from storage names a row in a
\* candidate's exact spelling; whereas two candidates of one batch that
\* differ in letter case only are answered as a conflict of the payload.
C22_ExactStorageMatch ==
    [][\A p \in Procs :
        /\ (SelectReturns(p) /\ StoredMatches(req[p].body) = {}) =>
              pc'[p] = "insert" /\ registros' = registros
        /\ (SelectReturns(p) /\ pc'[p] = "done") =>
              \E r \in StoredMatches(req[p].body) :
                  resp'[p].body.identificacion = r.identificacion
        /\ (InsertRuns(p) /\ resp'[p].status = 201) =>
              \A i \in 1..Len(req[p].body.registros) :
                  \E r \in registros' \ registros :
                      r.identificacion = TrimmedIdent(req[p].body, i)
        /\ (StartsPost(p) /\ Accepted(req'[p].body)
              /\ \E i, j \in 1..Len(req'[p].body.registros) :
                    /\ i < j
                    /\ IdentKey(req'[p].body, i) = IdentKey(req'[p].body, j)
                    /\ TrimmedIdent(req'[p].body, i) # TrimmedIdent(req'[p].body, j)) =>
              /\ resp'[p].status = 409
              /\ resp'[p].body.source = "payload"]_vars

\* C22 witness: a candidate was inserted and answered 201 although the
\* table held its identification in another letter case.
C22_Witness ==
    \E p \in Procs :
        /\ pc[p] = "done"
        /\ req[p].op = "post"
        /\ resp[p].status = 201
        /\ \E r1, r2 \in registros :
              /\ r1.id < r2.id
              /\ r1.identificacion # r2.identificacion
              /\ ToUpperCase(r1.identificacion) = ToUpperCase(r2.identificacion)
              /\ \E i \in 1..Len(req[p].body.registros) :
                    r2.identificacion = TrimmedIdent(req[p].body, i)
              /\ \A i \in 1..Len(req[p].body.registros) :
                    r1.identificacion # TrimmedIdent(req[p].body, i)

\* C23: the intra-batch check runs before the storage check: a batch with
\* an internal duplicate is answered 409 with source "payload" in its
\* first step, also when one of its identifications is persisted, and no
\* SELECT is issued for it; the SELECT is issued, and source "database"
\* answered, only for batches without internal duplicate.
C23_PayloadBeforeStorage ==
    [][\A p \in Procs :
        /\ (StartsPost(p) /\ Accepted(req'[p].body) /\ Repeats(req'[p].body) # {}) =>
              /\ pc'[p] = "done"
              /\ resp'[p].status = 409
              /\ resp'[p].body.source = "payload"
        /\ (req'[p].op = "post" /\ pc'[p] \in { "select", "insert" }) =>
              Repeats(req'[p].body) = {}
        /\ (req'[p].op = "post" /\ pc'[p] = "done" /\ resp'[p].status = 409
              /\ resp'[p].body.source = "database") =>
              /\ pc[p] = "select"
              /\ Repeats(req'[p].body) = {}]_vars

\* C23 witness: a batch of two spellings of one identification, one of
\* them persisted, has been answered with source "payload".
C23_Witness ==
    \E p \in Procs :
        /\ pc[p] = "done"
        /\ req[p].op = "post"
        /\ resp[p].status = 409
        /\ resp[p].body.source = "payload"
        /\ Repeats(req[p].body) # {}
        /\ StoredMatches(req[p].body) # {}

\* C25: every persisted record has a non-empty identificacion, dependencia,
\* grado, nombresCompletos, motivo and usuario, none of them with leading
\* or trailing white space.
C25_StoredFieldsFilled ==
    \A r \in registros :
        \A f \in RequiredFields \cup { "usuario" } :
            /\ r[f] # <<>>
            /\ r[f][1] # " "
            /\ r[f][Len(r[f])] # " "

\* C26: with a watermark image, every page of the document has the
\* watermark drawn on it exactly once.
C26_WatermarkOnce ==
    \A p \in Procs :
        (Produced(p) /\ doc[p].watermarkBuffer # NoBuffer) =>
            \A n \in 1..doc[p].page :
                Cardinality({ i \in Drawings(p, "watermark") :
                                doc[p].drawn[i].page = n }) = 1

\* ------------------------------------------------------------------- C24
\* C24: no operation is retried automatically: after the personal-data
\* request for an identification has failed (network or non-404 HTTP error),
\* no further request for that identification is sent by a step that leaves
\* the rows of the table as they are.
FailedKeys(fetches) ==
    { fetches[k].key : k \in { i \in DOMAIN fetches : fetches[i].state = "error" } }

C24_NoRetry ==
    [][table'.rows = table.rows =>
          \A j \in DOMAIN table'.fetches \ DOMAIN table.fetches :
              table'.fetches[j].key \notin FailedKeys(table'.fetches)]_vars

\* ------------------------------------------------------------------- C27
\* C27: after any sequence of load, add-row, remove-row, cell-change and
\* paste actions, the rows loaded from the server are never modified or
\* removed locally (only a load replaces them), all persisted rows stay
\* before all unsaved rows, a paste writes only into unsaved or newly
\* appended rows, and at least one unsaved row always exists.
PersistedRows(tableRows) ==
    SelectSeq(tableRows, LAMBDA row : row.persistedId # 0)

UnsavedRows(tableRows) ==
    SelectSeq(tableRows, LAMBDA row : row.persistedId = 0)

\* The step is a load: the answer of GET /api/registros is there and the
\* list becomes its records followed by one empty row.
LoadStep ==
    /\ pc[1] = "done"
    /\ req[1].op = "list"
    /\ Len(PersistedRows(table'.rows)) =
           (IF resp[1].status = 200 THEN Len(resp[1].body.registros) ELSE 0)
    /\ \A i \in 1..Len(PersistedRows(table'.rows)) :
           PersistedRows(table'.rows)[i].persistedId = resp[1].body.registros[i].id
    /\ Len(UnsavedRows(table'.rows)) = 1
    /\ \A key \in REQUIRED_COLUMNS \cup { "detalle" } :
           UnsavedRows(table'.rows)[1][key] = <<>>

C27_PersistedRowsFrame ==
    [][/\ LoadStep \/ PersistedRows(table'.rows) = PersistedRows(table.rows)
       /\ \A i, j \in 1..Len(table'.rows) :
            (i < j /\ table'.rows[j].persistedId # 0)
                => table'.rows[i].persistedId # 0
       /\ table'.mounted => UnsavedRows(table'.rows) # <<>>]_vars

\* C27 witness: a record was loaded and a paste of two lines into the
\* unsaved row after it has filled that row and appended another.
C27_Witness ==
    /\ Len(table.rows) = 3
    /\ table.rows[1].persistedId # 0
    /\ table.rows[2].persistedId = 0
    /\ table.rows[2].identificacion = <<"b">>
    /\ table.rows[3].identificacion = <<"B">>
    /\ table.rows[3].grado = <<"C", "B", "O", "P">>

\* ------------------------------------------------------------------- C28
\* C28: handleSaveAll sends the POST request only when no unsaved row has
\* the identification of another row (the duplicate flag) and every unsaved
\* row, blank rows included, has its five required fields non-empty; a
\* request sent never holds two identifications equal after trimming and
\* upper-casing, and its rows are exactly the unsaved rows.
TrimmedFields(row) ==
    [key \in REQUIRED_COLUMNS \cup { "detalle" } |-> Trim(row[key])]

InFlight == { k \in DOMAIN table.fetches : table.fetches[k].state = "sent" }

C29_OneLookupInFlight ==
    \A j, k \in InFlight : j # k => table.fetches[j].key # table.fetches[k].key

\* The second half of C29, as far as a state tells: an entry is "pending"
\* only while a request for its identification is in flight.
C29_PendingHasRequest ==
    \A key \in DOMAIN table.personalCache :
        table.personalCache[key].status = "pending" =>
            \E k \in InFlight : table.fetches[k].key = key

\* ------------------------------------------------------------------- C30
\* C30: for every per-unit response the server can return, the list built
\* by loadData holds each canonical unit exactly once, with total 0 when no
\* returned name is that unit, and the displayed total (the sum of the
\* list's totals) equals the sum of the totals of the response, also when two
\* returned names are equal after trimming and upper-casing or a returned
\* name is blank.
ItemsOf(dependencia) ==
    { i \in 1..Len(summary.items) : summary.items[i].dependencia = dependencia }

ReturnedFor(dependencia) ==
    { i \in 1..Len(summary.rawItems) :
        ToUpperCase(Trim(summary.rawItems[i].dependencia)) = ToUpperCase(Trim(dependencia)) }

C30_SummaryMatchesResponse ==
    summary.loaded =>
        /\ \A k \in 1..Len(DEPENDENCIA_OPTIONS) :
            /\ Cardinality(ItemsOf(DEPENDENCIA_OPTIONS[k])) = 1
            /\ ReturnedFor(DEPENDENCIA_OPTIONS[k]) = {} =>
                 \A i \in ItemsOf(DEPENDENCIA_OPTIONS[k]) : summary.items[i].total = 0
        /\ totalRegistros(summary.items) = totalRegistros(summary.rawItems)

\* The part of C30 that holds: the canonical units, once each.
C30_CanonicalOnce ==
    summary.loaded =>
        \A k \in 1..Len(DEPENDENCIA_OPTIONS) :
            /\ Cardinality(ItemsOf(DEPENDENCIA_OPTIONS[k])) = 1
            /\ ReturnedFor(DEPENDENCIA_OPTIONS[k]) = {} =>
                 \A i \in ItemsOf(DEPENDENCIA_OPTIONS[k]) : summary.items[i].total = 0

\* The displayed total when no returned name is blank and no two returned
\* names are one canonical unit.
C30_TotalWhenDistinct ==
    (/\ summary.loaded
     /\ \A i \in 1..Len(summary.rawItems) :
            ToUpperCase(Trim(summary.rawItems[i].dependencia)) # <<>>
     /\ \A k \in 1..Len(DEPENDENCIA_OPTIONS) :
            Cardinality(ReturnedFor(DEPENDENCIA_OPTIONS[k])) <= 1)
        => totalRegistros(summary.items) = totalRegistros(summary.rawItems)

====
